---- MODULE Spec2Model ----
(***************************************************************************)
(* ESC telemetry sensor of rotorflight-firmware                            *)
(* (src/main/sensors/esc_sensor.c): the KISS request/response scheduler    *)
(* and frame decoder, the Hobbywing V4 stream parser and decoder, and the  *)
(* consumer query getEscSensorData.                                        *)
(*                                                                         *)
(* Time is the scheduler's microsecond clock; the horizons below stay far  *)
(* from its 32-bit wrap.                                                   *)
(***************************************************************************)
EXTENDS Integers, Sequences, FiniteSets, TLC

(* ------------------------------------------------------------------ *)
(* Program constants                                                   *)
(* ------------------------------------------------------------------ *)
ESC_BOOTTIME == 5000
ESC_REQUEST_TIMEOUT == 100
TELEMETRY_FRAME_SIZE == 10
ESC_DATA_INVALID == 255
ESC_SENSOR_COMBINED == 255
MAX_SUPPORTED_MOTORS == 4
HW4_FRAME_SIZE == 19
HW4_SYNC == 155
HW4_SKIP == 11
HW4_AGE_PERIOD_US == 250000

(* ------------------------------------------------------------------ *)
(* Bounds of the model                                                 *)
(* ------------------------------------------------------------------ *)
MaxReplies == 2
MaxFrames == 1
KissWindowMs == 305

(* the KISS horizon: the boot delay and three request timeouts *)
KissHorizonMs == ESC_BOOTTIME + KissWindowMs
MotorCounts == {1, 2}

Byte == 0..255
Motors == 0..(MAX_SUPPORTED_MOTORS - 1)

(* ------------------------------------------------------------------ *)
(* Fixed-width integer helpers                                         *)
(* ------------------------------------------------------------------ *)
U8(x) == x % 256

Bit(x, i) == (x \div (2 ^ i)) % 2

\* the bitwise exclusive or of two bytes
Xor(a, b) ==
      ((Bit(a, 0) + Bit(b, 0)) % 2)
    + ((Bit(a, 1) + Bit(b, 1)) % 2) * 2
    + ((Bit(a, 2) + Bit(b, 2)) % 2) * 4
    + ((Bit(a, 3) + Bit(b, 3)) % 2) * 8
    + ((Bit(a, 4) + Bit(b, 4)) % 2) * 16
    + ((Bit(a, 5) + Bit(b, 5)) % 2) * 32
    + ((Bit(a, 6) + Bit(b, 6)) % 2) * 64
    + ((Bit(a, 7) + Bit(b, 7)) % 2) * 128

Max(a, b) == IF a > b THEN a ELSE b

(* escSensorData_t: temperature is a 16-bit field; voltage, current,    *)
(* consumption and rpm are 32-bit fields, which hold every 16-bit and   *)
(* 24-bit value a frame carries unchanged                               *)
ToI16(x) == ((x + 32768) % 65536) - 32768

(* ------------------------------------------------------------------ *)
(* CRC-8                                                               *)
(* ------------------------------------------------------------------ *)
\* one round of the loop of updateCrc8
Crc8Step(crc_u) ==
    IF crc_u >= 128 THEN U8(Xor(7, U8(crc_u * 2))) ELSE U8(crc_u * 2)

\* the eight rounds, for every value of crc ^ crc_seed
Crc8Rounds ==
    LET r1 == [b \in Byte |-> Crc8Step(b)]
        r2 == [b \in Byte |-> r1[r1[b]]]
        r4 == [b \in Byte |-> r2[r2[b]]]
    IN  [b \in Byte |-> r4[r4[b]]]

updateCrc8(crc, crc_seed) == Crc8Rounds[Xor(crc, crc_seed)]

RECURSIVE Crc8Upto(_, _)
Crc8Upto(Buf, n) ==
    IF n = 0 THEN 0 ELSE updateCrc8(Buf[n], Crc8Upto(Buf, n - 1))

calculateCrc8(Buf, BufLen) == Crc8Upto(Buf, BufLen)

(* ------------------------------------------------------------------ *)
(* State                                                               *)
(* ------------------------------------------------------------------ *)
VARIABLES
    (* configuration and collaborators *)
    protocol,               \* escSensorConfig()->protocol
    featureEnabled,         \* featureIsEnabled(FEATURE_ESC_SENSOR)
    portAvail,              \* "none": no port configured; "fail": open fails; "ok"
    motorEnabled,           \* motorIsEnabled()
    motorCount,             \* getMotorCount()
    freqFeature,            \* featureIsEnabled(FEATURE_FREQ_SENSOR)
    freqSensorPort,         \* per motor, isFreqSensorPortInitialized(i)
    dshotTelemetry,         \* isMotorProtocolDshot() && useDshotTelemetry
    currentTimeUs,          \* the scheduler clock
    initDone,               \* escSensorInit has run
    (* esc_sensor.c, shared and KISS *)
    telemetryBuffer,
    bufferSize,
    bufferPosition,
    escSensorPort,
    escSensorData,
    escSensorTriggerState,
    escTriggerTimestamp,
    escSensorMotor,
    combinedEscSensorData,
    combinedDataNeedsUpdate,
    totalTimeoutCount,
    totalCrcErrorCount,
    requestTelemetry,       \* getMotorDmaOutput(m)->protocolControl.requestTelemetry
    (* esc_sensor.c, Hobbywing V4 *)
    hwData,
    skipBytes,
    bytesRead,
    dataUpdateUs,
    consumptionUpdateUs,
    totalConsumption,       \* in mA ms
    (* the task, when its statements are interleaved with the callback *)
    pc,
    tickMs,                 \* currentTimeMs of the run in progress
    path,                   \* how the run in progress ends: "ok", "crc", "timeout"
    (* the KISS ESCs on the wire *)
    escTx,                  \* the reply being sent and the bytes of it sent
    replies,                \* replies started so far
    validSent,              \* an ESC has sent a frame with a correct checksum
    (* the Hobbywing ESC on the wire *)
    hwTape,                 \* the bytes the ESC sends
    hwFed,                  \* how many of them reached the serial driver
    rxFifo,                 \* bytes waiting in the serial driver
    (* motors.c *)
    motorRpmSource,
    rpmInitDone,            \* rpmSourceInit has run
    (* the consumer *)
    lastQuery,              \* the last call of getEscSensorData and its result
    (* history *)
    storeIndex,             \* the buffer index of the callback's last store (-1: none)
    storeLog,               \* per buffer byte: when it was stored, during which request,
                            \* and which ESC had sent it
    lastRequestMs,          \* per motor, when its last request was issued (-1: never)
    requestCount,           \* requests issued
    decodeCount,            \* frames decoded into a record
    hwReports,              \* frames the HW4 synchronizer reported
    hwReportAt,             \* bytes parsed when it reported the last one
    hwReportLog,            \* bytes parsed at each of its reports, in order
    hwDecodeAtUs,           \* when the last HW4 frame passed the sanity test (-1: never)
    hwAgedAtUs,             \* when the HW4 age test last struck (-1: never)
    hwFrame                 \* the buffered bytes of the last one

cfgVars == <<protocol, featureEnabled, portAvail, motorEnabled, motorCount,
             freqFeature, freqSensorPort, dshotTelemetry>>
rpmVars == <<motorRpmSource, rpmInitDone>>
bufVars == <<telemetryBuffer, bufferSize, bufferPosition, storeIndex, storeLog>>
schedVars == <<escSensorTriggerState, escTriggerTimestamp, escSensorMotor,
               totalTimeoutCount, requestTelemetry>>
dataVars == <<escSensorData, combinedDataNeedsUpdate>>
hwVars == <<hwData, skipBytes, bytesRead, dataUpdateUs, consumptionUpdateUs,
            totalConsumption>>
hwHistVars == <<hwReports, hwReportAt, hwReportLog, hwDecodeAtUs, hwAgedAtUs, hwFrame>>
hwWireVars == <<hwTape, hwFed, rxFifo>>
taskVars == <<pc, tickMs, path>>
wireVars == <<escTx, replies, validSent>>
kissHistVars == <<lastRequestMs, requestCount>>
vars == <<cfgVars, currentTimeUs, initDone, bufVars, escSensorPort, schedVars,
          dataVars, combinedEscSensorData, totalCrcErrorCount, hwVars, hwHistVars,
          hwWireVars, taskVars, wireVars, lastQuery, kissHistVars, decodeCount,
          rpmVars>>

\* what the KISS scheduler never touches, and what the HW4 decoder never touches
hwSide == <<hwVars, hwHistVars, rxFifo>>
kissSide == <<bufVars, schedVars, kissHistVars>>
\* what no run of the task touches
offTask == <<cfgVars, initDone, escSensorPort, combinedEscSensorData, wireVars,
             hwTape, hwFed, lastQuery, rpmVars>>

ZeroRecord ==
    [dataAge |-> 0, temperature |-> 0, voltage |-> 0, current |-> 0,
     consumption |-> 0, rpm |-> 0]

\* neither a frequency sensor nor DShot telemetry
NoOtherRpmSource ==
    /\ freqFeature = FALSE
    /\ freqSensorPort = [i \in Motors |-> FALSE]
    /\ dshotTelemetry = FALSE

NoStore == [atMs |-> -1, request |-> 0, motor |-> -1]
NoReply == [frame |-> <<>>, sent |-> 0, motor |-> -1]
NoQuery == [arg |-> -1, ret |-> "none", index |-> -1]

(* static initialisation of the translation unit *)
StaticInit ==
    /\ currentTimeUs = 0
    /\ initDone = FALSE
    /\ telemetryBuffer = [i \in 1..TELEMETRY_FRAME_SIZE |-> 0]
    /\ bufferSize = 0
    /\ bufferPosition = 0
    /\ escSensorPort = FALSE
    /\ escSensorData = [m \in Motors |-> ZeroRecord]
    /\ escSensorTriggerState = "STARTUP"
    /\ escTriggerTimestamp = 0
    /\ escSensorMotor = 0
    /\ combinedEscSensorData = ZeroRecord
    /\ combinedDataNeedsUpdate = TRUE
    /\ totalTimeoutCount = 0
    /\ totalCrcErrorCount = 0
    /\ requestTelemetry = [m \in Motors |-> FALSE]
    /\ escTx = NoReply
    /\ hwData = [i \in 1..20 |-> 0]
    /\ skipBytes = 0
    /\ bytesRead = 0
    /\ dataUpdateUs = 0
    /\ consumptionUpdateUs = 0
    /\ totalConsumption = 0
    /\ pc = "idle"
    /\ tickMs = 0
    /\ path = "ok"
    /\ replies = 0
    /\ validSent = FALSE
    /\ hwFed = 0
    /\ rxFifo = <<>>
    /\ lastQuery = NoQuery
    /\ motorRpmSource = [i \in Motors |-> "NONE"]
    /\ rpmInitDone = FALSE
    /\ storeIndex = -1
    /\ storeLog = [i \in 1..TELEMETRY_FRAME_SIZE |-> NoStore]
    /\ lastRequestMs = [m \in Motors |-> -1]
    /\ requestCount = 0
    /\ decodeCount = 0
    /\ hwReports = 0
    /\ hwReportAt = 0
    /\ hwReportLog = <<>>
    /\ hwDecodeAtUs = -1
    /\ hwAgedAtUs = -1
    /\ hwFrame = <<>>

(* ------------------------------------------------------------------ *)
(* escSensorInit                                                       *)
(* ------------------------------------------------------------------ *)
escSensorInit ==
    /\ ~initDone
    /\ initDone' = TRUE
    /\ IF portAvail = "none"
       THEN UNCHANGED <<escSensorPort, escSensorData>>
       ELSE /\ escSensorPort' = (portAvail = "ok" /\ protocol \in {"KISS", "HW4"})
            /\ escSensorData' =
                 [m \in Motors |-> [escSensorData[m] EXCEPT !.dataAge = ESC_DATA_INVALID]]
    /\ UNCHANGED <<cfgVars, currentTimeUs, bufVars, schedVars, combinedDataNeedsUpdate,
                   combinedEscSensorData, totalCrcErrorCount, hwVars, hwHistVars,
                   hwWireVars, taskVars, wireVars, lastQuery, kissHistVars, decodeCount,
                   rpmVars>>

(* ------------------------------------------------------------------ *)
(* The receive callback                                                *)
(* ------------------------------------------------------------------ *)
\* a bug: a buffer that holds any byte is taken for a frame
isFrameCompleteAny(pos, size) == pos > 0

isFrameComplete(pos, size) == pos = size

\* escSensorDataReceive(c): a bounds-checked store
DataReceiveBuffer(buf, pos, size, c) ==
    IF pos < size THEN [buf EXCEPT ![pos + 1] = U8(c)] ELSE buf

\* a bug: the position advances although the buffer is full
DataReceivePositionUnchecked(pos, size) == U8(pos + 1)

DataReceivePosition(pos, size) ==
    IF pos < size THEN U8(pos + 1) ELSE pos

\* the index the callback stores at, if it stores
DataReceiveIndex(pos, size, last) ==
    IF pos < size THEN pos ELSE last

escSensorDataReceive(c) ==
    /\ telemetryBuffer' = DataReceiveBuffer(telemetryBuffer, bufferPosition, bufferSize, c)
    /\ bufferPosition' = DataReceivePosition(bufferPosition, bufferSize)
    /\ storeIndex' = DataReceiveIndex(bufferPosition, bufferSize, storeIndex)
    /\ storeLog' = IF bufferPosition < bufferSize
                   THEN [storeLog EXCEPT ![bufferPosition + 1] =
                            [atMs |-> currentTimeUs \div 1000, request |-> requestCount,
                             motor |-> escTx.motor]]
                   ELSE storeLog
    /\ UNCHANGED bufferSize

(* ------------------------------------------------------------------ *)
(* KISS decoder                                                        *)
(* ------------------------------------------------------------------ *)
\* a bug: the 16-bit fields read low byte first
DecodedRecordSwapped(buf) ==
    [dataAge |-> 0,
     temperature |-> ToI16(buf[1]),
     voltage |-> (buf[3] * 256 + buf[2]),
     current |-> (buf[5] * 256 + buf[4]),
     consumption |-> (buf[7] * 256 + buf[6]),
     rpm |-> (buf[9] * 256 + buf[8])]

\* the record a frame with a matching checksum decodes into
DecodedRecord(buf) ==
    [dataAge |-> 0,
     temperature |-> ToI16(buf[1]),
     voltage |-> (buf[2] * 256 + buf[3]),
     current |-> (buf[4] * 256 + buf[5]),
     consumption |-> (buf[6] * 256 + buf[7]),
     rpm |-> (buf[8] * 256 + buf[9])]

\* a bug: the top bit of the check byte is not compared
decodeEscFrameLoose(buf, pos, size) ==
    IF ~isFrameComplete(pos, size) THEN "PENDING"
    ELSE IF calculateCrc8(buf, TELEMETRY_FRAME_SIZE - 1) % 128
              = buf[TELEMETRY_FRAME_SIZE] % 128
         THEN "COMPLETE"
         ELSE "FAILED"

\* the frame state decodeEscFrame returns
decodeEscFrame(buf, pos, size) ==
    IF ~isFrameComplete(pos, size) THEN "PENDING"
    ELSE IF calculateCrc8(buf, TELEMETRY_FRAME_SIZE - 1) = buf[TELEMETRY_FRAME_SIZE]
         THEN "COMPLETE"
         ELSE "FAILED"

\* the records after decodeEscFrame
DecodeData(data, m, buf, pos, size) ==
    IF decodeEscFrame(buf, pos, size) = "COMPLETE"
    THEN [data EXCEPT ![m] = DecodedRecord(buf)]
    ELSE data

\* the dirty flag after decodeEscFrame
DecodeDirty(dirty, buf, pos, size) ==
    IF decodeEscFrame(buf, pos, size) = "COMPLETE" THEN TRUE ELSE dirty

(* ------------------------------------------------------------------ *)
(* KISS scheduler                                                      *)
(* ------------------------------------------------------------------ *)
\* a bug: the age is incremented without the test against ESC_DATA_INVALID
increaseDataAgeWrapping(data, m) ==
    [data EXCEPT ![m].dataAge = U8(@ + 1)]

\* a bug: the age stays what it was
increaseDataAgeNone(data, m) == data

increaseDataAge(data, m) ==
    IF data[m].dataAge < ESC_DATA_INVALID
    THEN [data EXCEPT ![m].dataAge = U8(@ + 1)]
    ELSE data

\* a bug: the age is incremented without marking the aggregate stale
IncreaseDirtyStale(data, m, dirty) == dirty

\* combinedDataNeedsUpdate after increaseDataAge
IncreaseDirty(data, m, dirty) ==
    IF data[m].dataAge < ESC_DATA_INVALID THEN TRUE ELSE dirty

\* a bug: the index wraps one motor early
selectNextMotorShort(m, count) ==
    IF U8(m + 1) + 1 >= count THEN 0 ELSE U8(m + 1)

selectNextMotor(m, count) ==
    IF U8(m + 1) = count THEN 0 ELSE U8(m + 1)

\* a bug: a new request leaves the write position where it was
setRequestNoRearm(m, currentTimeMs) ==
    /\ bufferSize' = TELEMETRY_FRAME_SIZE
    /\ requestTelemetry' = [requestTelemetry EXCEPT ![m] = TRUE]
    /\ escSensorTriggerState' = "PENDING"
    /\ escTriggerTimestamp' = currentTimeMs
    /\ escSensorMotor' = m
    /\ lastRequestMs' = [lastRequestMs EXCEPT ![m] = currentTimeMs]
    /\ requestCount' = requestCount + 1
    /\ UNCHANGED <<bufferPosition, telemetryBuffer, storeIndex, storeLog>>

\* a bug: the trigger state is left as it was
setRequestNoPending(m, currentTimeMs) ==
    /\ bufferPosition' = 0
    /\ bufferSize' = TELEMETRY_FRAME_SIZE
    /\ requestTelemetry' = [requestTelemetry EXCEPT ![m] = TRUE]
    /\ escSensorTriggerState' = escSensorTriggerState
    /\ escTriggerTimestamp' = currentTimeMs
    /\ escSensorMotor' = m
    /\ lastRequestMs' = [lastRequestMs EXCEPT ![m] = currentTimeMs]
    /\ requestCount' = requestCount + 1
    /\ UNCHANGED <<telemetryBuffer, storeIndex, storeLog>>

\* setRequest for motor m at currentTimeMs
setRequest(m, currentTimeMs) ==
    /\ bufferPosition' = 0
    /\ bufferSize' = TELEMETRY_FRAME_SIZE
    /\ requestTelemetry' = [requestTelemetry EXCEPT ![m] = TRUE]
    /\ escSensorTriggerState' = "PENDING"
    /\ escTriggerTimestamp' = currentTimeMs
    /\ escSensorMotor' = m
    /\ lastRequestMs' = [lastRequestMs EXCEPT ![m] = currentTimeMs]
    /\ requestCount' = requestCount + 1
    /\ UNCHANGED <<telemetryBuffer, storeIndex, storeLog>>

\* a bug: the boot delay compared with > instead of >=
BootElapsedLate(currentTimeMs) == currentTimeMs > ESC_BOOTTIME

BootElapsed(currentTimeMs) == currentTimeMs >= ESC_BOOTTIME

\* a bug: the scheduler waits for the answer without a timeout
RequestTimedOutNever(currentTimeMs, timestamp) == FALSE

\* a bug: the timeout strikes one millisecond early
RequestTimedOutEarly(currentTimeMs, timestamp) ==
    ~(currentTimeMs + 1 < timestamp + ESC_REQUEST_TIMEOUT)

\* a bug: the timeout compared with <= instead of <
RequestTimedOutLate(currentTimeMs, timestamp) ==
    ~(currentTimeMs <= timestamp + ESC_REQUEST_TIMEOUT)

RequestTimedOut(currentTimeMs, timestamp) ==
    ~(currentTimeMs < timestamp + ESC_REQUEST_TIMEOUT)

kissSensorProcess(timeUs) ==
    LET currentTimeMs == timeUs \div 1000
        state == decodeEscFrame(telemetryBuffer, bufferPosition, bufferSize)
        next == selectNextMotor(escSensorMotor, motorCount)
    IN
    \/ /\ escSensorTriggerState = "STARTUP"
       /\ BootElapsed(currentTimeMs)
       /\ setRequest(escSensorMotor, currentTimeMs)
       /\ UNCHANGED <<dataVars, totalTimeoutCount, totalCrcErrorCount, decodeCount>>
    \/ /\ escSensorTriggerState = "STARTUP"
       /\ ~BootElapsed(currentTimeMs)
       /\ UNCHANGED <<bufVars, schedVars, dataVars, totalCrcErrorCount, kissHistVars, decodeCount>>
    \/ /\ escSensorTriggerState = "PENDING"
       /\ ~RequestTimedOut(currentTimeMs, escTriggerTimestamp)
       /\ state = "COMPLETE"
       /\ escSensorData' = DecodeData(escSensorData, escSensorMotor, telemetryBuffer,
                                      bufferPosition, bufferSize)
       /\ combinedDataNeedsUpdate' = DecodeDirty(combinedDataNeedsUpdate, telemetryBuffer,
                                                 bufferPosition, bufferSize)
       /\ setRequest(next, currentTimeMs)
       /\ decodeCount' = decodeCount + 1
       /\ UNCHANGED <<totalTimeoutCount, totalCrcErrorCount>>
    \/ /\ escSensorTriggerState = "PENDING"
       /\ ~RequestTimedOut(currentTimeMs, escTriggerTimestamp)
       /\ state = "FAILED"
       /\ escSensorData' = increaseDataAge(escSensorData, escSensorMotor)
       /\ combinedDataNeedsUpdate' =
            IncreaseDirty(escSensorData, escSensorMotor, combinedDataNeedsUpdate)
       /\ setRequest(next, currentTimeMs)
       /\ totalCrcErrorCount' = totalCrcErrorCount + 1
       /\ UNCHANGED <<totalTimeoutCount, decodeCount>>
    \/ /\ escSensorTriggerState = "PENDING"
       /\ ~RequestTimedOut(currentTimeMs, escTriggerTimestamp)
       /\ state = "PENDING"
       /\ UNCHANGED <<bufVars, schedVars, dataVars, totalCrcErrorCount, kissHistVars, decodeCount>>
    \/ /\ escSensorTriggerState = "PENDING"
       /\ RequestTimedOut(currentTimeMs, escTriggerTimestamp)
       /\ escSensorData' = increaseDataAge(escSensorData, escSensorMotor)
       /\ combinedDataNeedsUpdate' =
            IncreaseDirty(escSensorData, escSensorMotor, combinedDataNeedsUpdate)
       /\ setRequest(next, currentTimeMs)
       /\ totalTimeoutCount' = totalTimeoutCount + 1
       /\ UNCHANGED <<totalCrcErrorCount, decodeCount>>

(* ------------------------------------------------------------------ *)
(* Hobbywing V4: conversions (lines 409-446). The float results are    *)
(* kept as exact fractions num/den; lrintf rounds to nearest, ties to  *)
(* even.                                                                *)
(* ------------------------------------------------------------------ *)
hw4_current_offset == 15
hw4_current_gain == 100
hw4_voltage_gain == 110

\* lrintf(n / d) for n >= 0, d > 0
lrintf(n, d) ==
    LET q == n \div d
        r == n % d
    IN IF 2 * r > d \/ (2 * r = d /\ q % 2 = 1) THEN q + 1 ELSE q

\* 1 / (ln(ntcR_Rref) / 3950 + 1 / 298.15) - 273.15 in hundredths of a degree,
\* for the raw readings the ESC of this model sends
NtcCurve ==
    (771 :> 11262) @@ (923 :> 10426) @@ (1024 :> 9941) @@ (2048 :> 6443)
        @@ (3072 :> 3546) @@ (3584 :> 1630)

\* ntcR_Rref = raw / (4096 - raw) * 10000 / 47000 < 0.001 yields 0
calcTempHW(tempRaw) ==
    IF tempRaw * 10047 < 192512
    THEN [num |-> 0, den |-> 100]
    ELSE [num |-> Max(NtcCurve[tempRaw], 0), den |-> 100]

\* raw * (3.3 / 4096) * (gain / 10) volts
calcVoltHW(voltRaw) ==
    [num |-> voltRaw * 33 * hw4_voltage_gain, den |-> 409600]

\* (raw - offset) * 3.3 / (4096 * 0.00025 * gain / 10) amperes
calcCurrHW(currentRaw) ==
    IF currentRaw > hw4_current_offset
    THEN [num |-> (currentRaw - hw4_current_offset) * 4125, den |-> 128 * hw4_current_gain]
    ELSE [num |-> 0, den |-> 1]

(* ------------------------------------------------------------------ *)
(* Hobbywing V4: the stream synchronizer. p holds hwData, skipBytes,   *)
(* bytesRead and the return value of the last call.                    *)
(* ------------------------------------------------------------------ *)
\* a bug: the second sync byte is taken for payload
processHW4NoSignature(p, dataByte) ==
    IF p.skipBytes > 0
    THEN [p EXCEPT !.skipBytes = @ - 1, !.complete = FALSE]
    ELSE IF p.bytesRead = 0 /\ dataByte = HW4_SYNC
    THEN [p EXCEPT !.hwData[1] = dataByte, !.bytesRead = 1, !.complete = FALSE]
    ELSE IF p.bytesRead > 0
    THEN [p EXCEPT !.hwData[p.bytesRead + 1] = dataByte,
                   !.bytesRead = IF p.bytesRead + 1 = HW4_FRAME_SIZE THEN 0 ELSE @ + 1,
                   !.complete = (p.bytesRead + 1 = HW4_FRAME_SIZE)]
    ELSE [p EXCEPT !.complete = FALSE]

\* a bug: a sync byte ends the skipping
processHW4SkipSync(p, dataByte) ==
    IF p.skipBytes > 0 /\ dataByte # HW4_SYNC
    THEN [p EXCEPT !.skipBytes = @ - 1, !.complete = FALSE]
    ELSE IF p.bytesRead = 0 /\ dataByte = HW4_SYNC
    THEN [p EXCEPT !.hwData[1] = dataByte, !.bytesRead = 1, !.complete = FALSE]
    ELSE IF p.bytesRead = 1 /\ dataByte = HW4_SYNC
    THEN [p EXCEPT !.bytesRead = 0, !.skipBytes = HW4_SKIP, !.complete = FALSE]
    ELSE IF p.bytesRead > 0
    THEN [p EXCEPT !.hwData[p.bytesRead + 1] = dataByte,
                   !.bytesRead = IF p.bytesRead + 1 = HW4_FRAME_SIZE THEN 0 ELSE @ + 1,
                   !.complete = (p.bytesRead + 1 = HW4_FRAME_SIZE)]
    ELSE [p EXCEPT !.complete = FALSE]

processHW4TelemetryStream(p, dataByte) ==
    IF p.skipBytes > 0
    THEN [p EXCEPT !.skipBytes = @ - 1, !.complete = FALSE]
    ELSE IF p.bytesRead = 0 /\ dataByte = HW4_SYNC
    THEN [p EXCEPT !.hwData[1] = dataByte, !.bytesRead = 1, !.complete = FALSE]
    ELSE IF p.bytesRead = 1 /\ dataByte = HW4_SYNC
    THEN [p EXCEPT !.bytesRead = 0, !.skipBytes = HW4_SKIP, !.complete = FALSE]
    ELSE IF p.bytesRead > 0
    THEN [p EXCEPT !.hwData[p.bytesRead + 1] = dataByte,
                   !.bytesRead = IF p.bytesRead + 1 = HW4_FRAME_SIZE THEN 0 ELSE @ + 1,
                   !.complete = (p.bytesRead + 1 = HW4_FRAME_SIZE)]
    ELSE [p EXCEPT !.complete = FALSE]

(* ------------------------------------------------------------------ *)
(* Hobbywing V4: the decoder. hwData[i] of the source is d[i + 1].     *)
(* ------------------------------------------------------------------ *)
\* a bug: the high byte of the BEC temperature is not tested
Hw4SaneLoose(d) ==
    /\ d[5] < 4 /\ d[7] < 4 /\ d[9] < 4
    /\ d[12] < 15 /\ d[14] < 15 /\ d[16] < 15

Hw4Sane(d) ==
    /\ d[5] < 4 /\ d[7] < 4 /\ d[9] < 4
    /\ d[12] < 15 /\ d[14] < 15 /\ d[16] < 15 /\ d[18] < 15

Hw4Thr(d) == d[5] * 256 + d[6]
Hw4Rpm(d) == d[9] * 65536 + d[10] * 256 + d[11]

\* record 0 after a frame that passed the sanity test
Hw4Record(rec, d) ==
    LET voltage == calcVoltHW(d[12] * 256 + d[13])
        current == calcCurrHW(d[14] * 256 + d[15])
        tempFET == calcTempHW(d[16] * 256 + d[17])
    IN [rec EXCEPT
          !.dataAge = 0,
          !.temperature = ToI16(lrintf(tempFET.num, tempFET.den)),
          !.voltage = lrintf(voltage.num * 100, voltage.den),
          !.current = IF Hw4Rpm(d) < 100 \/ Hw4Thr(d) < 50
                      THEN 0
                      ELSE lrintf(current.num * 100, current.den),
          !.rpm = Hw4Rpm(d) \div 100]

\* one turn of the while loop: a byte is read and parsed, a complete frame is
\* decoded or counted as an error
Hw4Byte(s, dataByte, timeUs) ==
    LET p == processHW4TelemetryStream(
                [hwData |-> s.hwData, skipBytes |-> s.skipBytes,
                 bytesRead |-> s.bytesRead, complete |-> FALSE], dataByte)
        sane == Hw4Sane(p.hwData)
    IN [hwData |-> p.hwData,
        skipBytes |-> p.skipBytes,
        bytesRead |-> p.bytesRead,
        parsed |-> s.parsed + 1,
        rec |-> IF p.complete /\ sane THEN Hw4Record(s.rec, p.hwData) ELSE s.rec,
        dataUpdateUs |-> IF p.complete /\ sane THEN timeUs ELSE s.dataUpdateUs,
        crcErrors |-> IF p.complete /\ ~sane THEN s.crcErrors + 1 ELSE s.crcErrors,
        decodes |-> IF p.complete /\ sane THEN s.decodes + 1 ELSE s.decodes,
        reports |-> IF p.complete THEN s.reports + 1 ELSE s.reports,
        reportAt |-> IF p.complete THEN s.parsed + 1 ELSE s.reportAt,
        reportLog |-> IF p.complete THEN Append(s.reportLog, s.parsed + 1)
                      ELSE s.reportLog,
        decodeAt |-> IF p.complete /\ sane THEN timeUs ELSE s.decodeAt,
        frame |-> IF p.complete THEN SubSeq(p.hwData, 1, HW4_FRAME_SIZE) ELSE s.frame]

RECURSIVE Hw4Drain(_, _, _)
\* while (serialRxBytesWaiting(escSensorPort))
Hw4Drain(s, fifo, timeUs) ==
    IF fifo = <<>> THEN s
    ELSE Hw4Drain(Hw4Byte(s, Head(fifo), timeUs), Tail(fifo), timeUs)

\* a bug: the age test strikes at 250 ms already
Hw4AgeDueEarly(timeUs, updateUs) == timeUs - updateUs >= HW4_AGE_PERIOD_US

\* cmp32(currentTimeUs, dataUpdateUs) > 250000
Hw4AgeDue(timeUs, updateUs) == timeUs - updateUs > HW4_AGE_PERIOD_US

\* mA ms in one mAh
MAMS_PER_MAH == 3600000

hw4SensorProcess(timeUs) ==
    LET due == Hw4AgeDue(timeUs, dataUpdateUs)
        aged == IF due THEN increaseDataAge(escSensorData, escSensorMotor)
                ELSE escSensorData
        s0 == [hwData |-> hwData, skipBytes |-> skipBytes, bytesRead |-> bytesRead,
               parsed |-> hwFed - Len(rxFifo),
               rec |-> aged[0],
               dataUpdateUs |-> IF due THEN timeUs ELSE dataUpdateUs,
               crcErrors |-> totalCrcErrorCount, decodes |-> decodeCount,
               reports |-> hwReports, reportAt |-> hwReportAt, reportLog |-> hwReportLog,
               decodeAt |-> hwDecodeAtUs, frame |-> hwFrame]
        s == Hw4Drain(s0, rxFifo, timeUs)
        total == totalConsumption
                    + ((timeUs - consumptionUpdateUs) \div 1000) * s.rec.current * 10
    IN
    /\ combinedDataNeedsUpdate' =
          IF due THEN IncreaseDirty(escSensorData, escSensorMotor, combinedDataNeedsUpdate)
          ELSE combinedDataNeedsUpdate
    /\ hwData' = s.hwData
    /\ skipBytes' = s.skipBytes
    /\ bytesRead' = s.bytesRead
    /\ dataUpdateUs' = s.dataUpdateUs
    /\ totalCrcErrorCount' = s.crcErrors
    /\ decodeCount' = s.decodes
    /\ hwReports' = s.reports
    /\ hwReportAt' = s.reportAt
    /\ hwReportLog' = s.reportLog
    /\ hwDecodeAtUs' = s.decodeAt
    /\ hwAgedAtUs' = IF due THEN timeUs ELSE hwAgedAtUs
    /\ hwFrame' = s.frame
    /\ rxFifo' = <<>>
    /\ totalConsumption' = total
    /\ consumptionUpdateUs' = timeUs
    /\ escSensorData' =
          [aged EXCEPT ![0] = [s.rec EXCEPT !.consumption = lrintf(total, MAMS_PER_MAH)]]

(* ------------------------------------------------------------------ *)
(* getEscSensorData                                                    *)
(* ------------------------------------------------------------------ *)
RECURSIVE CombinedUpto(_, _)
\* the accumulation loop over motors 0 .. i-1
CombinedUpto(data, i) ==
    IF i = 0 THEN ZeroRecord
    ELSE LET acc == CombinedUpto(data, i - 1)
             rec == data[i - 1]
         IN [dataAge |-> Max(acc.dataAge, rec.dataAge),
             temperature |-> Max(acc.temperature, rec.temperature),
             voltage |-> acc.voltage + rec.voltage,
             current |-> acc.current + rec.current,
             consumption |-> acc.consumption + rec.consumption,
             rpm |-> acc.rpm + rec.rpm]

CombinedData(data, count) ==
    LET acc == CombinedUpto(data, count)
    IN [acc EXCEPT !.voltage = @ \div count, !.rpm = @ \div count]

\* what the call returns: NULL, a motor record or the combined record
QueryTarget(enabled, proto, motorNumber, count) ==
    IF ~enabled THEN "NULL"
    ELSE IF proto = "KISS" /\ motorNumber < count THEN "record"
    ELSE IF proto = "KISS" /\ motorNumber = ESC_SENSOR_COMBINED THEN "combined"
    ELSE IF proto = "HW4" THEN "record"
    ELSE "NULL"

\* the index of the record returned
QueryIndex(proto, motorNumber) ==
    IF proto = "HW4" THEN 0 ELSE motorNumber

getEscSensorData(motorNumber) ==
    LET target == QueryTarget(featureEnabled, protocol, motorNumber, motorCount)
        update == target = "combined" /\ combinedDataNeedsUpdate /\ motorCount > 0
    IN
    /\ initDone
    /\ pc = "idle"
    /\ lastQuery' = [arg |-> motorNumber, ret |-> target,
                     index |-> IF target = "record"
                               THEN QueryIndex(protocol, motorNumber) ELSE -1]
    /\ combinedEscSensorData' =
          IF update THEN CombinedData(escSensorData, motorCount)
          ELSE combinedEscSensorData
    /\ combinedDataNeedsUpdate' = IF update THEN FALSE ELSE combinedDataNeedsUpdate
    /\ UNCHANGED <<cfgVars, currentTimeUs, initDone, bufVars, escSensorPort, schedVars,
                   escSensorData, totalCrcErrorCount, hwVars, hwHistVars, hwWireVars,
                   taskVars, wireVars, kissHistVars, decodeCount, rpmVars>>

(* ------------------------------------------------------------------ *)
(* escSensorProcess                                                    *)
(* ------------------------------------------------------------------ *)
SensorActive == escSensorPort /\ motorEnabled

\* the early return: no port, or the motors are disabled
ProcessInactive ==
    /\ ~SensorActive
    /\ UNCHANGED <<kissSide, hwSide, dataVars, totalCrcErrorCount, decodeCount>>

ProcessKiss(timeUs) ==
    /\ SensorActive
    /\ protocol = "KISS"
    /\ kissSensorProcess(timeUs)
    /\ UNCHANGED hwSide

ProcessHw4(timeUs) ==
    /\ SensorActive
    /\ protocol = "HW4"
    /\ hw4SensorProcess(timeUs)
    /\ UNCHANGED kissSide

(* ------------------------------------------------------------------ *)
(* The KISS ESCs: a reply is a frame, or the first bytes of one, sent  *)
(* after the request flag of the motor was raised                      *)
(* ------------------------------------------------------------------ *)
KissPayload == <<10, 0, 220, 0, 5, 0, 10, 1, 244>>
GoodFrame == Append(KissPayload, calculateCrc8(KissPayload, 9))
BadFrame == Append(KissPayload, Xor(calculateCrc8(KissPayload, 9), 1))
PartialLen == 4
PartialFrame == SubSeq(GoodFrame, 1, PartialLen)
KissReplies == {GoodFrame, BadFrame, PartialFrame}
\* how long after its request an ESC starts to answer, in ms
ReplyDelays ==
    {0, ESC_REQUEST_TIMEOUT - 2, ESC_REQUEST_TIMEOUT - 1, ESC_REQUEST_TIMEOUT}

EscIdle == escTx.sent = Len(escTx.frame)

\* what no action of the wire touches
offWire == <<cfgVars, currentTimeUs, initDone, escSensorPort, dataVars,
             combinedEscSensorData, totalCrcErrorCount, hwVars, hwHistVars,
             taskVars, lastQuery, kissHistVars, decodeCount, rpmVars>>

EscStart(m, f, budget) ==
    /\ requestTelemetry[m]
    /\ EscIdle
    /\ replies < budget
    /\ ((currentTimeUs \div 1000) - lastRequestMs[m]) \in ReplyDelays
    /\ escTx' = [frame |-> f, sent |-> 0, motor |-> m]
    /\ replies' = replies + 1
    /\ validSent' = (validSent \/ f = GoodFrame)
    /\ requestTelemetry' = [requestTelemetry EXCEPT ![m] = FALSE]
    /\ UNCHANGED <<offWire, bufVars, escSensorTriggerState, escTriggerTimestamp,
                   escSensorMotor, totalTimeoutCount, hwWireVars>>

\* an ESC sends a frame nobody asked for
EscBabble(f, budget) ==
    /\ EscIdle
    /\ replies < budget
    /\ escTx' = [frame |-> f, sent |-> 0, motor |-> -1]
    /\ replies' = replies + 1
    /\ validSent' = (validSent \/ f = GoodFrame)
    /\ UNCHANGED <<offWire, bufVars, schedVars, hwWireVars>>

\* the serial driver hands the next byte on the wire to the callback
EscSend ==
    /\ ~EscIdle
    /\ escSensorPort
    /\ protocol = "KISS"
    /\ escSensorDataReceive(escTx.frame[escTx.sent + 1])
    /\ escTx' = [escTx EXCEPT !.sent = @ + 1]
    /\ UNCHANGED <<offWire, schedVars, replies, validSent, hwWireVars>>

(* ------------------------------------------------------------------ *)
(* The Hobbywing ESC: its bytes wait in the serial driver until the    *)
(* task reads them                                                     *)
(* ------------------------------------------------------------------ *)
HwArrive(fifoSize) ==
    /\ escSensorPort
    /\ protocol = "HW4"
    /\ hwFed < Len(hwTape)
    /\ Len(rxFifo) < fifoSize
    /\ rxFifo' = Append(rxFifo, hwTape[hwFed + 1])
    /\ hwFed' = hwFed + 1
    /\ UNCHANGED <<offWire, bufVars, schedVars, wireVars, hwTape>>

(* ------------------------------------------------------------------ *)
(* The scheduler task, run as one step                                 *)
(* ------------------------------------------------------------------ *)
TaskFrame ==
    /\ initDone
    /\ pc = "idle"
    /\ UNCHANGED <<offTask, taskVars>>

\* the task runs again within the same millisecond
TickNow == TaskFrame /\ UNCHANGED currentTimeUs

\* the task runs at the start of the next millisecond
TickNextMs(horizonMs) ==
    /\ TaskFrame
    /\ EscIdle
    /\ (currentTimeUs \div 1000) < horizonMs
    /\ currentTimeUs' = currentTimeUs + 1000

\* the task runs dtMs later
TickAfter(dtMs, horizonMs) ==
    /\ TaskFrame
    /\ EscIdle
    /\ (currentTimeUs \div 1000) + dtMs <= horizonMs
    /\ currentTimeUs' = currentTimeUs + dtMs * 1000

(* ------------------------------------------------------------------ *)
(* The scheduler task, statement by statement: the receive callback    *)
(* is an interrupt and may run between any two of them                 *)
(* ------------------------------------------------------------------ *)
stepFrame == <<offTask, hwSide, telemetryBuffer, storeIndex, storeLog>>

\* escSensorProcess is entered dtMs after the last run; the switch of
\* kissSensorProcess picks the branch
StepEnter(dtMs, horizonMs) ==
    LET timeUs == currentTimeUs + dtMs * 1000
        currentTimeMs == timeUs \div 1000
    IN
    /\ initDone
    /\ pc = "idle"
    /\ SensorActive
    /\ protocol = "KISS"
    /\ dtMs > 0 => EscIdle
    /\ currentTimeMs <= horizonMs
    /\ currentTimeUs' = timeUs
    /\ tickMs' = currentTimeMs
    /\ pc' = IF escSensorTriggerState = "STARTUP"
             THEN (IF BootElapsed(currentTimeMs) THEN "arm_position" ELSE "idle")
             ELSE (IF RequestTimedOut(currentTimeMs, escTriggerTimestamp)
                   THEN "age" ELSE "check")
    /\ path' = IF escSensorTriggerState = "PENDING"
                  /\ RequestTimedOut(currentTimeMs, escTriggerTimestamp)
               THEN "timeout" ELSE "ok"
    /\ UNCHANGED <<stepFrame, bufferSize, bufferPosition, schedVars, dataVars,
                   totalCrcErrorCount, kissHistVars, decodeCount>>

\* decodeEscFrame: if (!isFrameComplete()) return ESC_SENSOR_FRAME_PENDING
StepCheck ==
    /\ pc = "check"
    /\ pc' = IF isFrameComplete(bufferPosition, bufferSize) THEN "crc" ELSE "idle"
    /\ UNCHANGED <<stepFrame, currentTimeUs, tickMs, path, bufferSize, bufferPosition,
                   schedVars, dataVars, totalCrcErrorCount, kissHistVars, decodeCount>>

\* decodeEscFrame: the checksum is computed and the frame stored or refused
StepCrc ==
    LET state == decodeEscFrame(telemetryBuffer, bufferPosition, bufferSize)
    IN
    /\ pc = "crc"
    /\ escSensorData' = DecodeData(escSensorData, escSensorMotor, telemetryBuffer,
                                   bufferPosition, bufferSize)
    /\ combinedDataNeedsUpdate' = DecodeDirty(combinedDataNeedsUpdate, telemetryBuffer,
                                              bufferPosition, bufferSize)
    /\ decodeCount' = IF state = "COMPLETE" THEN decodeCount + 1 ELSE decodeCount
    /\ path' = IF state = "FAILED" THEN "crc" ELSE "ok"
    /\ pc' = CASE state = "COMPLETE" -> "select"
               [] state = "FAILED" -> "age"
               [] OTHER -> "idle"
    /\ UNCHANGED <<stepFrame, currentTimeUs, tickMs, bufferSize, bufferPosition,
                   schedVars, totalCrcErrorCount, kissHistVars>>

StepAge ==
    /\ pc = "age"
    /\ escSensorData' = increaseDataAge(escSensorData, escSensorMotor)
    /\ combinedDataNeedsUpdate' =
          IncreaseDirty(escSensorData, escSensorMotor, combinedDataNeedsUpdate)
    /\ pc' = "select"
    /\ UNCHANGED <<stepFrame, currentTimeUs, tickMs, path, bufferSize, bufferPosition,
                   schedVars, totalCrcErrorCount, kissHistVars, decodeCount>>

StepSelect ==
    /\ pc = "select"
    /\ escSensorMotor' = selectNextMotor(escSensorMotor, motorCount)
    /\ pc' = "arm_position"
    /\ UNCHANGED <<stepFrame, currentTimeUs, tickMs, path, bufferSize, bufferPosition,
                   escSensorTriggerState, escTriggerTimestamp, totalTimeoutCount,
                   requestTelemetry, dataVars, totalCrcErrorCount, kissHistVars,
                   decodeCount>>

\* startEscDataRead: bufferPosition = 0
StepArmPosition ==
    /\ pc = "arm_position"
    /\ bufferPosition' = 0
    /\ pc' = "arm_size"
    /\ UNCHANGED <<stepFrame, currentTimeUs, tickMs, path, bufferSize, schedVars,
                   dataVars, totalCrcErrorCount, kissHistVars, decodeCount>>

\* startEscDataRead: bufferSize = frameLength
StepArmSize ==
    /\ pc = "arm_size"
    /\ bufferSize' = TELEMETRY_FRAME_SIZE
    /\ pc' = "arm_request"
    /\ UNCHANGED <<stepFrame, currentTimeUs, tickMs, path, bufferPosition, schedVars,
                   dataVars, totalCrcErrorCount, kissHistVars, decodeCount>>

\* setRequest after startEscDataRead: the request flag, the state, the time stamp
StepArmRequest ==
    /\ pc = "arm_request"
    /\ requestTelemetry' = [requestTelemetry EXCEPT ![escSensorMotor] = TRUE]
    /\ escSensorTriggerState' = "PENDING"
    /\ escTriggerTimestamp' = tickMs
    /\ lastRequestMs' = [lastRequestMs EXCEPT ![escSensorMotor] = tickMs]
    /\ requestCount' = requestCount + 1
    /\ pc' = IF path = "ok" THEN "idle" ELSE "count"
    /\ UNCHANGED <<stepFrame, currentTimeUs, tickMs, path, bufferSize, bufferPosition,
                   escSensorMotor, totalTimeoutCount, dataVars, totalCrcErrorCount,
                   decodeCount>>

\* ++totalCrcErrorCount or ++totalTimeoutCount
StepCount ==
    /\ pc = "count"
    /\ totalCrcErrorCount' = IF path = "crc" THEN totalCrcErrorCount + 1
                             ELSE totalCrcErrorCount
    /\ totalTimeoutCount' = IF path = "timeout" THEN totalTimeoutCount + 1
                            ELSE totalTimeoutCount
    /\ pc' = "idle"
    /\ UNCHANGED <<stepFrame, currentTimeUs, tickMs, path, bufferSize, bufferPosition,
                   escSensorTriggerState, escTriggerTimestamp, escSensorMotor,
                   requestTelemetry, dataVars, kissHistVars, decodeCount>>

(* ------------------------------------------------------------------ *)
(* The KISS scheduler, run at least once in every millisecond          *)
(* ------------------------------------------------------------------ *)
InitKiss ==
    /\ StaticInit
    /\ NoOtherRpmSource
    /\ protocol = "KISS"
    /\ featureEnabled = TRUE
    /\ portAvail \in {"none", "fail", "ok"}
    /\ motorEnabled \in BOOLEAN
    /\ motorCount \in MotorCounts
    /\ hwTape = <<>>

NextKiss ==
    \/ escSensorInit
    \/ (TickNow /\ ProcessInactive)
    \/ (TickNow /\ ProcessKiss(currentTimeUs))
    \/ (TickNextMs(KissHorizonMs) /\ ProcessInactive)
    \/ (TickNextMs(KissHorizonMs) /\ ProcessKiss(currentTimeUs'))
    \/ \E m \in Motors, f \in KissReplies : EscStart(m, f, MaxReplies)
    \/ EscSend

SpecKiss == InitKiss /\ [][NextKiss]_vars

(* ------------------------------------------------------------------ *)
(* The KISS decoder: the task runs at any rate, the ESCs send frames   *)
(* with any payload and a correct or corrupted check byte              *)
(* ------------------------------------------------------------------ *)
TaskPeriodsMs == {ESC_REQUEST_TIMEOUT, ESC_BOOTTIME}
DecodeHorizonMs == ESC_BOOTTIME + 2 * ESC_REQUEST_TIMEOUT

LowByte == 3
HighByte == 200
\* payloads whose 16-bit fields have different high and low bytes
DecodePayloads ==
    {[i \in 1..9 |-> IF i % 2 = r THEN HighByte ELSE LowByte] : r \in 0..1}
        \cup {[i \in 1..9 |-> LowByte], KissPayload}
\* the check byte, or the check byte with one bit flipped
CheckBytes(payload) ==
    {calculateCrc8(payload, 9)}
        \cup {Xor(calculateCrc8(payload, 9), 2 ^ i) : i \in 0..7}
DecodeFrames ==
    UNION {{Append(p, c) : c \in CheckBytes(p)} : p \in DecodePayloads}

InitDecode ==
    /\ StaticInit
    /\ NoOtherRpmSource
    /\ protocol = "KISS"
    /\ featureEnabled = TRUE
    /\ portAvail \in {"none", "ok"}
    /\ motorEnabled = TRUE
    /\ motorCount \in MotorCounts
    /\ hwTape = <<>>

NextDecode ==
    \/ escSensorInit
    \/ (TickNow /\ ProcessInactive)
    \/ (TickNow /\ ProcessKiss(currentTimeUs))
    \/ \E dt \in TaskPeriodsMs :
          \/ (TickAfter(dt, DecodeHorizonMs) /\ ProcessInactive)
          \/ (TickAfter(dt, DecodeHorizonMs) /\ ProcessKiss(currentTimeUs'))
    \/ \E m \in Motors, f \in DecodeFrames : EscStart(m, f, MaxFrames)
    \/ EscSend

SpecDecode == InitDecode /\ [][NextDecode]_vars

(* ------------------------------------------------------------------ *)
(* The receive interrupt against the statements of the task            *)
(* ------------------------------------------------------------------ *)
MaxBabble == 1

InitRace ==
    /\ StaticInit
    /\ NoOtherRpmSource
    /\ protocol = "KISS"
    /\ featureEnabled = TRUE
    /\ portAvail = "ok"
    /\ motorEnabled = TRUE
    /\ motorCount \in MotorCounts
    /\ hwTape = <<>>

NextRace ==
    \/ escSensorInit
    \/ \E dt \in {0} \cup TaskPeriodsMs : StepEnter(dt, DecodeHorizonMs)
    \/ StepCheck
    \/ StepCrc
    \/ StepAge
    \/ StepSelect
    \/ StepArmPosition
    \/ StepArmSize
    \/ StepArmRequest
    \/ StepCount
    \/ \E f \in KissReplies : EscBabble(f, MaxBabble)
    \/ EscSend

SpecRace == InitRace /\ [][NextRace]_vars

(* ------------------------------------------------------------------ *)
(* The Hobbywing ESC's frames                                          *)
(* ------------------------------------------------------------------ *)
\* counter 1, throttle 100, pwm 100, 10000 rpm, raw voltage 2048, raw current 115,
\* raw temperatures 2048 and 3072
HwPayload == <<0, 0, 1, 0, 100, 0, 100, 0, 39, 16, 8, 0, 0, 115, 8, 0, 12, 0>>
HwGoodFrame == <<HW4_SYNC>> \o HwPayload
\* the throttle's high byte fails the sanity test
HwBadFrame == [HwGoodFrame EXCEPT ![5] = 4]
\* the motor stands still
HwStoppedFrame == [HwGoodFrame EXCEPT ![10] = 0, ![11] = 0]

HwStreams == {HwGoodFrame \o HwBadFrame, HwBadFrame \o HwStoppedFrame}

(* ------------------------------------------------------------------ *)
(* Both protocols, the task run at any rate                            *)
(* ------------------------------------------------------------------ *)
MaxFifo == 2
HwTicks == 3
HwHorizonMs == HwTicks * ESC_REQUEST_TIMEOUT
\* the KISS ESCs are asked after the boot delay, the Hobbywing ESC sends at once
HorizonMs == IF protocol = "KISS" THEN DecodeHorizonMs ELSE HwHorizonMs

Init ==
    /\ StaticInit
    /\ NoOtherRpmSource
    /\ protocol \in {"NONE", "KISS", "HW4"}
    /\ featureEnabled \in BOOLEAN
    /\ portAvail \in {"none", "ok"}
    /\ motorEnabled = TRUE
    /\ motorCount \in MotorCounts
    /\ hwTape \in (IF protocol = "HW4" THEN HwStreams ELSE {<<>>})

Next ==
    \/ escSensorInit
    \/ (TickNow /\ ProcessInactive)
    \/ (TickNow /\ ProcessKiss(currentTimeUs))
    \/ (TickNow /\ ProcessHw4(currentTimeUs))
    \/ \E dt \in TaskPeriodsMs :
          \/ (TickAfter(dt, HorizonMs) /\ ProcessInactive)
          \/ (TickAfter(dt, HorizonMs) /\ ProcessKiss(currentTimeUs'))
          \/ (TickAfter(dt, HorizonMs) /\ ProcessHw4(currentTimeUs'))
    \/ \E m \in Motors, f \in KissReplies : EscStart(m, f, MaxFrames)
    \/ EscSend
    \/ HwArrive(MaxFifo)

Spec == Init /\ [][Next]_vars

(* ------------------------------------------------------------------ *)
(* Both protocols, the KISS ESCs answering more than once              *)
(* ------------------------------------------------------------------ *)
NextReject ==
    \/ escSensorInit
    \/ (TickNow /\ ProcessInactive)
    \/ (TickNow /\ ProcessKiss(currentTimeUs))
    \/ (TickNow /\ ProcessHw4(currentTimeUs))
    \/ \E dt \in TaskPeriodsMs :
          \/ (TickAfter(dt, HorizonMs) /\ ProcessInactive)
          \/ (TickAfter(dt, HorizonMs) /\ ProcessKiss(currentTimeUs'))
          \/ (TickAfter(dt, HorizonMs) /\ ProcessHw4(currentTimeUs'))
    \/ \E m \in Motors, f \in KissReplies : EscStart(m, f, MaxReplies)
    \/ EscSend
    \/ HwArrive(MaxFifo)

SpecReject == Init /\ [][NextReject]_vars

(* ------------------------------------------------------------------ *)
(* Both protocols with a consumer that reads the telemetry             *)
(* ------------------------------------------------------------------ *)
QueryArgs == {0, 1, 2, ESC_SENSOR_COMBINED}

NextQuery ==
    \/ Next
    \/ \E n \in QueryArgs : getEscSensorData(n)

SpecQuery == Init /\ [][NextQuery]_vars

(* ------------------------------------------------------------------ *)
(* The Hobbywing synchronizer fed a signature packet and then a frame  *)
(* ------------------------------------------------------------------ *)
\* the 11 bytes after the two sync bytes: sync bytes at the places in s
SkipFill(s) == [i \in 1..HW4_SKIP |-> IF i \in s THEN HW4_SYNC ELSE LowByte]
SkipFills ==
    {SkipFill(s) : s \in {{}, 1..HW4_SKIP, {1}, {HW4_SKIP}, {1, 2}, {HW4_SKIP - 1, HW4_SKIP}}}
\* payloads that pass the sanity test, with a sync byte at no place or at place i
SyncPayloads ==
    {HwPayload} \cup {[HwPayload EXCEPT ![i] = HW4_SYNC] : i \in {1, 2, 5, 18}}
SyncTapes ==
    {<<HW4_SYNC, HW4_SYNC>> \o fill \o <<HW4_SYNC>> \o p :
        fill \in SkipFills, p \in SyncPayloads}


InitSync ==
    /\ StaticInit
    /\ NoOtherRpmSource
    /\ protocol = "HW4"
    /\ featureEnabled = TRUE
    /\ portAvail = "ok"
    /\ motorEnabled = TRUE
    /\ motorCount = 1
    /\ hwTape \in SyncTapes

NextSync ==
    \/ escSensorInit
    \/ (TickNow /\ ProcessHw4(currentTimeUs))
    \/ \E dt \in TaskPeriodsMs :
          TickAfter(dt, HwHorizonMs) /\ ProcessHw4(currentTimeUs')
    \/ HwArrive(MaxFifo)

SpecSync == InitSync /\ [][NextSync]_vars

(* ------------------------------------------------------------------ *)
(* The Hobbywing synchronizer started inside a stream of frames        *)
(* ------------------------------------------------------------------ *)
StreamFrames == 3
\* payloads that pass the sanity test, with a sync byte at no place or at place i
StreamPayloads ==
    {HwPayload} \cup {[HwPayload EXCEPT ![i] = HW4_SYNC] : i \in {1, 5, 18}}
RECURSIVE Repeated(_, _)
Repeated(f, n) == IF n = 0 THEN <<>> ELSE f \o Repeated(f, n - 1)
\* how many bytes of the first frame went by before the parser started
StreamOffsets == {0, 1, 10}
StreamTapes ==
    {SubSeq(Repeated(<<HW4_SYNC>> \o p, StreamFrames), off + 1,
            StreamFrames * HW4_FRAME_SIZE) :
        p \in StreamPayloads, off \in StreamOffsets}

InitStream ==
    /\ StaticInit
    /\ NoOtherRpmSource
    /\ protocol = "HW4"
    /\ featureEnabled = TRUE
    /\ portAvail = "ok"
    /\ motorEnabled = TRUE
    /\ motorCount = 1
    /\ hwTape \in StreamTapes

SpecStream == InitStream /\ [][NextSync]_vars

(* ------------------------------------------------------------------ *)
(* The Hobbywing decoder fed a valid frame and then a frame with one   *)
(* of the tested bytes at, below or above its limit                    *)
(* ------------------------------------------------------------------ *)
\* hwData indices of the bytes that must be below 4 and below 0x0F
SanityLowPlaces == {4, 6, 8}
SanityHighPlaces == {11, 13, 15, 17}
SanityFrames ==
    {[HwStoppedFrame EXCEPT ![i + 1] = v] : i \in SanityLowPlaces, v \in {3, 4, 255}}
    \cup {[HwStoppedFrame EXCEPT ![i + 1] = v] :
              i \in SanityHighPlaces, v \in {14, 15, 255}}

InitSanity ==
    /\ StaticInit
    /\ NoOtherRpmSource
    /\ protocol = "HW4"
    /\ featureEnabled = TRUE
    /\ portAvail = "ok"
    /\ motorEnabled = TRUE
    /\ motorCount = 1
    /\ hwTape \in {HwGoodFrame \o f : f \in SanityFrames}

SpecSanity == InitSanity /\ [][NextSync]_vars

(* ------------------------------------------------------------------ *)
(* The Hobbywing data age: the task runs every 125 or 126 ms, the ESC  *)
(* sends a valid frame and a frame that fails the sanity test          *)
(* ------------------------------------------------------------------ *)
AgePeriodsMs == {125, 126}
AgeTicks == 6
AgeHorizonMs == AgeTicks * 126
AgeStreams == {HwStoppedFrame \o HwBadFrame, HwBadFrame \o HwStoppedFrame}

InitAge ==
    /\ StaticInit
    /\ NoOtherRpmSource
    /\ protocol = "HW4"
    /\ featureEnabled = TRUE
    /\ portAvail = "ok"
    /\ motorEnabled = TRUE
    /\ motorCount = 1
    /\ hwTape \in AgeStreams

NextAge ==
    \/ escSensorInit
    \/ (TickNow /\ ProcessHw4(currentTimeUs))
    \/ \E dt \in AgePeriodsMs :
          TickAfter(dt, AgeHorizonMs) /\ ProcessHw4(currentTimeUs')
    \/ HwArrive(MaxFifo)

SpecAge == InitAge /\ [][NextAge]_vars

(* ------------------------------------------------------------------ *)
(* The Hobbywing synchronizer fed any bytes: sync bytes and other      *)
(* bytes in any order                                                  *)
(* ------------------------------------------------------------------ *)
MaxStream == 32
MaxSyncs == 3
StreamBytes == {HW4_SYNC, 3}
SyncsIn(tape) == Cardinality({i \in DOMAIN tape : tape[i] = HW4_SYNC})

\* the ESC sends byte b, which waits in the serial driver
HwEmit(b, fifoSize) ==
    /\ escSensorPort
    /\ protocol = "HW4"
    /\ hwFed = Len(hwTape)
    /\ Len(hwTape) < MaxStream
    /\ b = HW4_SYNC => SyncsIn(hwTape) < MaxSyncs
    /\ Len(rxFifo) < fifoSize
    /\ hwTape' = Append(hwTape, b)
    /\ rxFifo' = Append(rxFifo, b)
    /\ hwFed' = hwFed + 1
    /\ UNCHANGED <<offWire, bufVars, schedVars, wireVars>>

InitParser ==
    /\ StaticInit
    /\ NoOtherRpmSource
    /\ protocol = "HW4"
    /\ featureEnabled = TRUE
    /\ portAvail = "ok"
    /\ motorEnabled = TRUE
    /\ motorCount = 1
    /\ hwTape = <<>>

NextParser ==
    \/ escSensorInit
    \/ (TickNow /\ ProcessHw4(currentTimeUs))
    \* up to two bytes wait for the task
    \/ \E b \in StreamBytes : HwEmit(b, 2)

SpecParser == InitParser /\ [][NextParser]_vars

(* ------------------------------------------------------------------ *)
(* motors.c: the RPM source of each motor. The optional sources are    *)
(* compiled in; a build without one behaves as with its feature off.   *)
(* ------------------------------------------------------------------ *)
\* the source rpmSourceInit picks for motor i
RpmSourceFor(i) ==
    IF freqFeature /\ freqSensorPort[i] THEN "FREQ_SENSOR"
    ELSE IF dshotTelemetry THEN "DSHOT_TELEM"
    ELSE IF featureEnabled /\ escSensorPort THEN "ESC_SENSOR"
    ELSE "NONE"

rpmSourceInit ==
    /\ ~rpmInitDone
    /\ rpmInitDone' = TRUE
    /\ motorRpmSource' = [i \in Motors |-> RpmSourceFor(i)]
    /\ UNCHANGED <<cfgVars, currentTimeUs, initDone, bufVars, escSensorPort, schedVars,
                   dataVars, combinedEscSensorData, totalCrcErrorCount, hwVars,
                   hwHistVars, hwWireVars, taskVars, wireVars, lastQuery, kissHistVars,
                   decodeCount>>

RECURSIVE RpmActiveFrom(_, _, _)
\* the loop of isRpmSourceActive from motor i on
RpmActiveFrom(src, i, count) ==
    IF i >= count THEN TRUE
    ELSE IF src[i] = "NONE" THEN FALSE
    ELSE RpmActiveFrom(src, i + 1, count)

\* a bug: only the first motor is looked at
isRpmSourceActiveFirst(src, count) ==
    count = 0 \/ src[0] # "NONE"

isRpmSourceActive(src, count) == RpmActiveFrom(src, 0, count)

InitRpm ==
    /\ StaticInit
    /\ protocol \in {"NONE", "KISS", "HW4"}
    /\ featureEnabled \in BOOLEAN
    /\ portAvail \in {"none", "fail", "ok"}
    /\ motorEnabled = TRUE
    /\ motorCount \in MotorCounts
    /\ hwTape = <<>>
    /\ freqFeature \in BOOLEAN
    /\ freqSensorPort \in [Motors -> BOOLEAN]
    /\ dshotTelemetry \in BOOLEAN

NextRpm ==
    \/ escSensorInit
    \/ rpmSourceInit

SpecRpm == InitRpm /\ [][NextRpm]_vars

(* ================================================================== *)
(* Properties                                                          *)
(* ================================================================== *)
NowMs == currentTimeUs \div 1000
KissRunning == initDone /\ SensorActive /\ protocol = "KISS"

RequestIssuedFor(m, ms) ==
    /\ escSensorTriggerState' = "PENDING"
    /\ escTriggerTimestamp' = ms
    /\ escSensorMotor' = m
    /\ bufferPosition' = 0
    /\ bufferSize' = TELEMETRY_FRAME_SIZE
    /\ requestTelemetry' = [requestTelemetry EXCEPT ![m] = TRUE]

\* C2: a KISS scheduler in Startup issues no request on a run before
\* 5000 ms (the buffer stays unarmed, no request flag is raised, the state
\* stays Startup); its first run at or after 5000 ms issues exactly one
\* request, for motor 0, and the state becomes AwaitingResponse.
C2_BootDelay ==
    [][(KissRunning /\ escSensorTriggerState = "STARTUP") =>
         IF (currentTimeUs' \div 1000) < ESC_BOOTTIME
         THEN /\ escSensorTriggerState' = "STARTUP"
              /\ bufferSize' = 0
              /\ bufferPosition' = 0
              /\ requestTelemetry' = [m \in Motors |-> FALSE]
              /\ requestCount' = 0
         ELSE /\ RequestIssuedFor(0, currentTimeUs' \div 1000)
              /\ requestTelemetry' = [m \in Motors |-> m = 0]
              /\ requestCount' = 1]_vars

C2_Witness ==
    /\ KissRunning
    /\ NowMs = ESC_BOOTTIME
    /\ escSensorTriggerState = "PENDING"
    /\ requestCount = 1
    /\ lastRequestMs[0] = ESC_BOOTTIME

\* the scheduler's position after k periods of 100 ms without an answer
AtPeriod(k) ==
    /\ totalTimeoutCount = k
    /\ escSensorMotor = k % motorCount

OnPeriod == (NowMs - ESC_BOOTTIME) % ESC_REQUEST_TIMEOUT = 0

\* C3 as stated: if no valid frame ever arrives, at 5000 + 100 k ms the
\* timeout counter is k and the selected motor is k mod N.
C3_Original ==
    (KissRunning /\ ~validSent /\ NowMs >= ESC_BOOTTIME /\ OnPeriod) =>
        AtPeriod((NowMs - ESC_BOOTTIME) \div ESC_REQUEST_TIMEOUT)

\* C3, amended: if no complete frame, valid or corrupt, is ever decoded
\* (no successful decode and no CRC error), at 5000 + 100 k ms the timeout
\* counter is k and the selected motor is k mod N.
C3_TimeoutCadence ==
    (KissRunning /\ decodeCount = 0 /\ totalCrcErrorCount = 0
        /\ NowMs >= ESC_BOOTTIME /\ OnPeriod) =>
        AtPeriod((NowMs - ESC_BOOTTIME) \div ESC_REQUEST_TIMEOUT)

C3_Witness ==
    /\ KissRunning
    /\ motorCount = 2
    /\ decodeCount = 0
    /\ totalCrcErrorCount = 0
    /\ NowMs = ESC_BOOTTIME + 3 * ESC_REQUEST_TIMEOUT
    /\ totalTimeoutCount = 3
    /\ escSensorMotor = 1

(* ------------------------------------------------------------------ *)
(* CRC-8 with polynomial x^8 + x^2 + x + 1 and seed 0, fed bit by bit, *)
(* most significant bit first: the reference the frames are held to    *)
(* ------------------------------------------------------------------ *)
RefBitStep ==
    [r \in Byte |-> [b \in 0..1 |->
        IF (Bit(r, 7) + b) % 2 = 1 THEN Xor(U8(r * 2), 7) ELSE U8(r * 2)]]

RefCrcByte(r, byte) ==
    RefBitStep[RefBitStep[RefBitStep[RefBitStep[RefBitStep[RefBitStep[RefBitStep[
        RefBitStep[r][Bit(byte, 7)]][Bit(byte, 6)]][Bit(byte, 5)]][Bit(byte, 4)]][
        Bit(byte, 3)]][Bit(byte, 2)]][Bit(byte, 1)]][Bit(byte, 0)]

RECURSIVE RefCrc8(_, _)
RefCrc8(buf, n) ==
    IF n = 0 THEN 0 ELSE RefCrcByte(RefCrc8(buf, n - 1), buf[n])

FrameFull == bufferSize = TELEMETRY_FRAME_SIZE /\ bufferPosition = bufferSize
CheckOk ==
    telemetryBuffer[TELEMETRY_FRAME_SIZE]
        = RefCrc8(telemetryBuffer, TELEMETRY_FRAME_SIZE - 1)

\* C4: on a full 10-byte buffer whose last byte differs from the CRC-8 of
\* the first nine, decodeEscFrame returns FRAME_FAILED and leaves every
\* field of every motor record and the combined-dirty flag unchanged.
C4_CrcMismatchRejected ==
    (KissRunning /\ FrameFull /\ ~CheckOk) =>
        /\ decodeEscFrame(telemetryBuffer, bufferPosition, bufferSize) = "FAILED"
        /\ DecodeData(escSensorData, escSensorMotor, telemetryBuffer,
                      bufferPosition, bufferSize) = escSensorData
        /\ DecodeDirty(combinedDataNeedsUpdate, telemetryBuffer,
                       bufferPosition, bufferSize) = combinedDataNeedsUpdate

\* a frame with one bit of its check byte flipped was received in full and
\* consumed by the scheduler; the records hold what they held before it
C4_Witness ==
    /\ KissRunning
    /\ replies = 1
    /\ EscIdle
    /\ Len(escTx.frame) = TELEMETRY_FRAME_SIZE
    /\ escTx.frame[TELEMETRY_FRAME_SIZE] = Xor(RefCrc8(escTx.frame, 9), 16)
    /\ totalCrcErrorCount = 1
    /\ decodeCount = 0
    /\ \A m \in Motors :
          escSensorData[m] = [ZeroRecord EXCEPT !.dataAge = ESC_DATA_INVALID]

\* the record the claim expects from the buffered frame
ExpectedRecord ==
    [dataAge |-> 0,
     temperature |-> telemetryBuffer[1],
     voltage |-> telemetryBuffer[2] * 256 + telemetryBuffer[3],
     current |-> telemetryBuffer[4] * 256 + telemetryBuffer[5],
     consumption |-> telemetryBuffer[6] * 256 + telemetryBuffer[7],
     rpm |-> telemetryBuffer[8] * 256 + telemetryBuffer[9]]

\* C5: on a full buffer of nine payload bytes followed by their CRC-8,
\* decodeEscFrame returns FRAME_COMPLETE, the selected motor's record holds
\* temperature = byte 0 and the big-endian voltage, current, consumption
\* and rpm, its age is 0, the dirty flag is set, and no other record changes.
C5_RoundTrip ==
    (KissRunning /\ FrameFull /\ CheckOk) =>
        /\ decodeEscFrame(telemetryBuffer, bufferPosition, bufferSize) = "COMPLETE"
        /\ DecodeData(escSensorData, escSensorMotor, telemetryBuffer,
                      bufferPosition, bufferSize)
             = [escSensorData EXCEPT ![escSensorMotor] = ExpectedRecord]
        /\ DecodeDirty(combinedDataNeedsUpdate, telemetryBuffer,
                       bufferPosition, bufferSize) = TRUE

\* the second of two motors answered with a valid frame after the first
\* one timed out: its record holds the frame, the first one is untouched
C5_Witness ==
    /\ KissRunning
    /\ motorCount = 2
    /\ decodeCount = 1
    /\ totalTimeoutCount = 1
    /\ escSensorMotor = 0
    /\ escTx.frame = Append([i \in 1..9 |-> IF i % 2 = 0 THEN HighByte ELSE LowByte],
                            RefCrc8([i \in 1..9 |-> IF i % 2 = 0 THEN HighByte
                                                     ELSE LowByte], 9))
    /\ escSensorData[1] =
          [dataAge |-> 0, temperature |-> LowByte,
           voltage |-> HighByte * 256 + LowByte, current |-> HighByte * 256 + LowByte,
           consumption |-> HighByte * 256 + LowByte, rpm |-> HighByte * 256 + LowByte]
    /\ escSensorData[0] = [ZeroRecord EXCEPT !.dataAge = ESC_DATA_INVALID]
    /\ combinedDataNeedsUpdate

(* ------------------------------------------------------------------ *)
(* The receive interrupt and the frame buffer                          *)
(* ------------------------------------------------------------------ *)
\* C6: under every interleaving of the receive callback with the statements of
\* the task, bufferPosition <= bufferSize <= 10, the callback's last store was at
\* an index below bufferSize, and the task computes the checksum of the buffer
\* only while bufferPosition = bufferSize
C6_BufferBounds ==
    /\ bufferPosition <= bufferSize
    /\ bufferSize <= TELEMETRY_FRAME_SIZE
    /\ storeIndex < bufferSize
    /\ pc = "crc" => bufferPosition = bufferSize

\* the callback stored a byte between the two assignments of startEscDataRead
C6_Witness ==
    /\ pc = "arm_size"
    /\ requestCount > 0
    /\ bufferPosition = 1
    /\ storeIndex = 0

(* ------------------------------------------------------------------ *)
(* The data age                                                        *)
(* ------------------------------------------------------------------ *)
\* the record a frame is decoded into
DecodeTarget == IF protocol = "KISS" THEN escSensorMotor ELSE 0

\* C7: after init, in either protocol, no step takes a data age above INVALID,
\* a step leaves an age alone, adds one to it or resets it to 0 (at INVALID the
\* increment leaves it at INVALID), and it resets it to 0 only when the step
\* decoded a frame into that record
C7_AgeSaturates ==
    [][\A m \in Motors :
          LET a == escSensorData[m].dataAge
              b == escSensorData'[m].dataAge
          IN initDone =>
                /\ b <= ESC_DATA_INVALID
                /\ b = a \/ b = a + 1 \/ b = 0
                /\ a = ESC_DATA_INVALID => b \in {ESC_DATA_INVALID, 0}
                /\ (b = 0 /\ a # 0) => (decodeCount' > decodeCount /\ m = DecodeTarget)
      ]_vars

\* a record was reset by a decode and has aged by one since, while another
\* increment found its record at INVALID
C7_Witness ==
    /\ initDone
    /\ decodeCount > 0
    /\ escSensorData[0].dataAge = 1
    /\ \/ protocol = "HW4"
       \/ escSensorData[1].dataAge = ESC_DATA_INVALID /\ totalTimeoutCount > 1

(* ------------------------------------------------------------------ *)
(* The combined record                                                 *)
(* ------------------------------------------------------------------ *)
MaxOfSet(S) == CHOOSE x \in S : \A y \in S : y <= x

RECURSIVE SumTo(_, _)
SumTo(F, n) == IF n = 0 THEN 0 ELSE F[n - 1] + SumTo(F, n - 1)

\* the aggregate of the records of motors 0 .. count-1
AggregateOf(data, count) ==
    [dataAge |-> MaxOfSet({data[m].dataAge : m \in 0..(count - 1)}),
     temperature |-> MaxOfSet({data[m].temperature : m \in 0..(count - 1)} \cup {0}),
     voltage |-> SumTo([m \in Motors |-> data[m].voltage], count) \div count,
     current |-> SumTo([m \in Motors |-> data[m].current], count),
     consumption |-> SumTo([m \in Motors |-> data[m].consumption], count),
     rpm |-> SumTo([m \in Motors |-> data[m].rpm], count) \div count]

\* C8: in KISS mode after init, the stored aggregate changes, and the dirty flag
\* is cleared, only in a getEscSensorData(COMBINED) call that found the flag set
\* and leaves the aggregate of the current records behind; every step that
\* changes a motor record sets the flag; so whenever the flag is clear the
\* stored aggregate is the aggregate of the current records
C8_LazyAggregate ==
    [][(protocol = "KISS" /\ initDone) =>
          /\ (combinedEscSensorData' # combinedEscSensorData
                 \/ (combinedDataNeedsUpdate /\ ~combinedDataNeedsUpdate'))
              => /\ lastQuery'.arg = ESC_SENSOR_COMBINED
                 /\ combinedDataNeedsUpdate
                 /\ ~combinedDataNeedsUpdate'
                 /\ escSensorData' = escSensorData
                 /\ combinedEscSensorData' = AggregateOf(escSensorData, motorCount)
          /\ escSensorData' # escSensorData => combinedDataNeedsUpdate'
          /\ ~combinedDataNeedsUpdate'
              => combinedEscSensorData' = AggregateOf(escSensorData', motorCount)
      ]_vars

\* two motors, one of them has answered, and the aggregate has been read
C8_Witness ==
    /\ protocol = "KISS"
    /\ motorCount = 2
    /\ decodeCount > 0
    /\ lastQuery.arg = ESC_SENSOR_COMBINED
    /\ ~combinedDataNeedsUpdate
    /\ combinedEscSensorData.rpm > 0
    /\ combinedEscSensorData.dataAge = ESC_DATA_INVALID

(* ------------------------------------------------------------------ *)
(* The Hobbywing synchronizer                                          *)
(* ------------------------------------------------------------------ *)
\* bytes of the tape the synchronizer has been given
HwParsed == hwFed - Len(rxFifo)
\* the two sync bytes of the signature packet and the bytes skipped after them
SyncPrefix == 2 + HW4_SKIP

\* no frame before the last byte, one frame at the last byte, holding the last
\* 19 bytes of the tape
OneFrameAtEnd ==
    /\ HwParsed < Len(hwTape) => hwReports = 0
    /\ HwParsed = Len(hwTape) =>
          /\ hwReports = 1
          /\ hwReportAt = Len(hwTape)
          /\ hwFrame = SubSeq(hwTape, SyncPrefix + 1, Len(hwTape))

\* C9 as stated: 0x9B 0x9B, any 11 bytes, 0x9B and any 18 payload bytes that pass
\* the sanity test yield exactly one frame, at the last byte
C9_Original == OneFrameAtEnd

\* C9: 0x9B 0x9B, any 11 bytes, 0x9B and 18 payload bytes that pass the sanity
\* test and do not start with 0x9B yield no frame during the first 2 + 11 bytes
\* and exactly one frame, at the last byte, whose 19 bytes are the last 0x9B and
\* the payload
C9_Resync ==
    hwTape[SyncPrefix + 2] # HW4_SYNC => OneFrameAtEnd

\* the whole tape has been parsed; sync bytes were among the skipped bytes and
\* in the payload
C9_Witness ==
    /\ Len(hwTape) = SyncPrefix + HW4_FRAME_SIZE
    /\ HwParsed = Len(hwTape)
    /\ hwTape[3] = HW4_SYNC
    /\ hwTape[SyncPrefix] = HW4_SYNC
    /\ hwTape[SyncPrefix + 2] # HW4_SYNC
    /\ hwTape[Len(hwTape)] = HW4_SYNC
    /\ hwReports = 1

(* ------------------------------------------------------------------ *)
(* The query                                                           *)
(* ------------------------------------------------------------------ *)
\* an index the claim calls invalid for the active protocol
InvalidIndex(n) ==
    IF protocol = "KISS" THEN n >= motorCount /\ n # ESC_SENSOR_COMBINED
    ELSE n # 0

\* C10: getEscSensorData returns NULL exactly when the feature is disabled or
\* the index is invalid for the active protocol (KISS: not below the motor
\* count and not COMBINED; HW4: not 0)
C10_NullOnInvalidIndex ==
    (protocol \in {"KISS", "HW4"} /\ lastQuery.ret # "none") =>
        ((lastQuery.ret = "NULL") <=> (~featureEnabled \/ InvalidIndex(lastQuery.arg)))

(* ------------------------------------------------------------------ *)
(* No serial port                                                      *)
(* ------------------------------------------------------------------ *)
\* the record the last query handed out, if it handed one out
QueryRecord ==
    IF lastQuery.ret = "record" THEN escSensorData[lastQuery.index]
    ELSE combinedEscSensorData

\* C11: with no serial port configured, init fails and the sensor stays
\* inactive, no tick changes the scheduler state, the counters or the records,
\* and a query returns NULL or a zero-valued record whose data age is INVALID
C11_TransportAbsence ==
    (initDone /\ portAvail = "none") =>
        /\ ~escSensorPort
        /\ escSensorTriggerState = "STARTUP"
        /\ escSensorMotor = 0
        /\ requestCount = 0
        /\ totalTimeoutCount = 0
        /\ totalCrcErrorCount = 0
        /\ decodeCount = 0
        /\ \A m \in Motors : [escSensorData[m] EXCEPT !.dataAge = 0] = ZeroRecord
        /\ lastQuery.ret \in {"record", "combined"} =>
              /\ [QueryRecord EXCEPT !.dataAge = 0] = ZeroRecord
              /\ QueryRecord.dataAge = ESC_DATA_INVALID

(* ------------------------------------------------------------------ *)
(* The RPM sources                                                     *)
(* ------------------------------------------------------------------ *)
\* C12: isRpmSourceActive is true exactly when every motor below the motor
\* count has a source other than NONE, whatever rpmSourceInit assigned
C12_RpmSourceActive ==
    isRpmSourceActive(motorRpmSource, motorCount)
        <=> (\A i \in 0..(motorCount - 1) : motorRpmSource[i] # "NONE")

\* after rpmSourceInit the first of two motors has a source, the second has
\* none, and isRpmSourceActive is false
C12_Witness ==
    /\ rpmInitDone
    /\ motorCount = 2
    /\ motorRpmSource[0] # "NONE"
    /\ motorRpmSource[1] = "NONE"
    /\ ~isRpmSourceActive(motorRpmSource, motorCount)

(* ------------------------------------------------------------------ *)
(* The timeout against a frame that has arrived                        *)
(* ------------------------------------------------------------------ *)
\* a complete frame is in the buffer; its last byte was stored at FrameAtMs
FrameWaiting ==
    /\ escSensorTriggerState = "PENDING"
    /\ bufferSize = TELEMETRY_FRAME_SIZE
    /\ bufferPosition = bufferSize
FrameAtMs == storeLog[TELEMETRY_FRAME_SIZE].atMs
TimeoutCounted == totalTimeoutCount' = totalTimeoutCount + 1
FrameConsumed ==
    decodeCount' + totalCrcErrorCount' = decodeCount + totalCrcErrorCount + 1

\* C13 as stated: with a tick in every millisecond, a frame whose 10 bytes all
\* arrived less than 100 ms after its request is never counted as a timeout
C13_Original ==
    [][TimeoutCounted =>
          ~(FrameWaiting /\ FrameAtMs - escTriggerTimestamp < ESC_REQUEST_TIMEOUT)]_vars

\* C13: the timeout path is taken only by a tick that runs 100 ms or more
\* after the request; a tick that runs earlier and finds 10 bytes decodes them
\* (COMPLETE or FAILED) and counts no timeout; so with a tick in every
\* millisecond a frame whose last byte arrived less than 99 ms after the
\* request is never counted as a timeout
C13_TimeoutOnlyAfterDeadline ==
    [][/\ TimeoutCounted =>
            /\ NowMs' >= escTriggerTimestamp + ESC_REQUEST_TIMEOUT
            /\ ~(FrameWaiting
                    /\ FrameAtMs - escTriggerTimestamp < ESC_REQUEST_TIMEOUT - 1)
       /\ (KissRunning /\ FrameWaiting /\ requestCount' # requestCount
              /\ NowMs' < escTriggerTimestamp + ESC_REQUEST_TIMEOUT)
            => (FrameConsumed /\ ~TimeoutCounted)
      ]_vars

\* a frame that arrived 98 ms after its request has been decoded, and a later
\* request has timed out
C13_Witness ==
    /\ decodeCount > 0
    /\ totalTimeoutCount > 0
    /\ \E m \in Motors :
          /\ escSensorData[m].dataAge = 0
          /\ escSensorData[m].rpm > 0
    /\ FrameAtMs = ESC_BOOTTIME + ESC_REQUEST_TIMEOUT - 2

(* ------------------------------------------------------------------ *)
(* Re-arming of the frame buffer                                       *)
(* ------------------------------------------------------------------ *)
\* the buffer is armed anew: the position goes back or the size changes
Rearmed == bufferPosition' < bufferPosition \/ bufferSize' # bufferSize
RequestIssued == requestCount' = requestCount + 1
\* a step of the task that writes the frame in the buffer into a record
FrameDecoded == KissRunning /\ decodeCount' = decodeCount + 1
FrameBytes == 1..TELEMETRY_FRAME_SIZE

\* C14 as stated: the buffer is re-armed only with a new request, and no byte
\* of a frame decoded into the record of motor m was sent by the ESC of
\* another motor
C14_Original ==
    [][/\ Rearmed => RequestIssued
       /\ FrameDecoded =>
            \A i \in FrameBytes : storeLog[i].motor = escSensorMotor]_vars

\* C14: the buffer is re-armed only in a step that issues a new request, every
\* request re-arms it, a frame is consumed in the step that issues the next
\* request, and every byte of a frame decoded into the record of motor m was
\* stored after the request for motor m was issued and before the next one
C14_RearmOnlyWithRequest ==
    [][/\ Rearmed => RequestIssued
       /\ (KissRunning /\ RequestIssued) =>
            /\ bufferPosition' = 0
            /\ bufferSize' = TELEMETRY_FRAME_SIZE
       /\ (KissRunning /\ FrameConsumed) => RequestIssued
       /\ FrameDecoded =>
            \A i \in FrameBytes :
               /\ storeLog[i].request = requestCount
               /\ storeLog[i].atMs >= escTriggerTimestamp]_vars

\* a second request was issued after a frame was decoded, and the buffer is
\* filling again with bytes of the second request
C14_Witness ==
    /\ KissRunning
    /\ decodeCount > 0
    /\ requestCount >= 2
    /\ bufferPosition > 0
    /\ bufferPosition < bufferSize
    /\ storeLog[1].request = requestCount
    /\ storeLog[TELEMETRY_FRAME_SIZE].request = requestCount - 1

(* ------------------------------------------------------------------ *)
(* Resynchronization inside a stream of frames                         *)
(* ------------------------------------------------------------------ *)
\* the place in the stream of the first byte of the tape
StreamOffset == StreamFrames * HW4_FRAME_SIZE - Len(hwTape)
\* a report made after r bytes of the tape does not end at a frame boundary
Misaligned(r) == (StreamOffset + r) % HW4_FRAME_SIZE # 0
MisalignedReports ==
    {i \in 1..Len(hwReportLog) : Misaligned(hwReportLog[i])}

\* C15: started anywhere in a stream of well-formed frames, the synchronizer
\* reports at most one frame that does not end at a frame boundary, and a
\* frame reported at a boundary is the true frame that ends there
C15_ResyncWithinOneFrame ==
    /\ Cardinality(MisalignedReports) <= 1
    /\ (hwReports > 0 /\ ~Misaligned(hwReportAt)) =>
          hwFrame = SubSeq(hwTape, hwReportAt - HW4_FRAME_SIZE + 1, hwReportAt)

(* ------------------------------------------------------------------ *)
(* A frame that fails its check                                        *)
(* ------------------------------------------------------------------ *)
\* byte4, byte6, byte8 or byte11, byte13, byte15, byte17 of frame f out of range
SanityViolated(f) ==
    \/ \E i \in {4, 6, 8} : f[i + 1] >= 4
    \/ \E i \in {11, 13, 15, 17} : f[i + 1] >= 15
\* the task, run before the deadline, consumes a full buffer with a wrong check byte
KissRejected ==
    /\ KissRunning
    /\ FrameWaiting
    /\ ~CheckOk
    /\ requestCount' # requestCount
    /\ NowMs' < escTriggerTimestamp + ESC_REQUEST_TIMEOUT
\* the synchronizer reports a frame that violates the sanity test
Hw4Rejected ==
    /\ protocol = "HW4"
    /\ hwReports' = hwReports + 1
    /\ SanityViolated(hwFrame')
CrcErrorCounted == totalCrcErrorCount' = totalCrcErrorCount + 1
SaturatedNext(a) == IF a < ESC_DATA_INVALID THEN a + 1 ELSE ESC_DATA_INVALID
\* the age of record m goes up by one, all else in the records stays
AgeBumpedOnly(m) ==
    escSensorData' =
        [escSensorData EXCEPT ![m].dataAge = SaturatedNext(escSensorData[m].dataAge)]
\* the readings of record 0 stay
ReadingsKept ==
    /\ escSensorData'[0].temperature = escSensorData[0].temperature
    /\ escSensorData'[0].voltage = escSensorData[0].voltage
    /\ escSensorData'[0].current = escSensorData[0].current
    /\ escSensorData'[0].rpm = escSensorData[0].rpm
KissRejectionEffect ==
    KissRejected =>
        /\ CrcErrorCounted
        /\ AgeBumpedOnly(escSensorMotor)
        /\ escSensorMotor' = (escSensorMotor + 1) % motorCount
        /\ requestCount' = requestCount + 1
        /\ escSensorTriggerState' = "PENDING"
        /\ decodeCount' = decodeCount
        /\ totalTimeoutCount' = totalTimeoutCount
OnlyRejectionsCounted ==
    totalCrcErrorCount' # totalCrcErrorCount =>
        (CrcErrorCounted /\ (KissRejected \/ Hw4Rejected))

\* C16 as stated: a rejected frame of either protocol is counted once and
\* bumps the data age of its motor by one
C16_Original ==
    [][/\ KissRejectionEffect
       /\ Hw4Rejected =>
            /\ CrcErrorCounted
            /\ ReadingsKept
            /\ escSensorData'[0].dataAge = SaturatedNext(escSensorData[0].dataAge)]_vars

\* C16: a KISS frame with a CRC mismatch is discarded, counted once, bumps the
\* age (saturating) of the motor that was requested and is followed by a
\* request to the next motor; an HW4 frame with a sanity violation is
\* discarded and counted once and does not touch the age, which goes up only
\* when the tick finds more than 250 ms since the last update of the age; the
\* counter moves in no other step
C16_RejectedFrame ==
    [][/\ KissRejectionEffect
       /\ Hw4Rejected =>
            /\ CrcErrorCounted
            /\ ReadingsKept
            /\ decodeCount' = decodeCount
            /\ escSensorData'[0].dataAge =
                  IF Hw4AgeDue(currentTimeUs', dataUpdateUs)
                  THEN SaturatedNext(escSensorData[0].dataAge)
                  ELSE escSensorData[0].dataAge
       /\ OnlyRejectionsCounted]_vars

\* the Hobbywing ESC sent a valid frame and then one that fails the sanity
\* test: the second is counted and the record is as fresh as before
C16_Witness ==
    /\ protocol = "HW4"
    /\ decodeCount = 1
    /\ totalCrcErrorCount = 1
    /\ hwReports = 2
    /\ SanityViolated(hwFrame)
    /\ escSensorData[0].dataAge = 0
    /\ escSensorData[0].rpm > 0

(* ------------------------------------------------------------------ *)
(* The Hobbywing sanity test                                           *)
(* ------------------------------------------------------------------ *)
\* the state of the while loop of hw4SensorProcess before its next byte
HwLoopState ==
    [hwData |-> hwData, skipBytes |-> skipBytes, bytesRead |-> bytesRead,
     parsed |-> HwParsed, rec |-> escSensorData[0], dataUpdateUs |-> dataUpdateUs,
     crcErrors |-> totalCrcErrorCount, decodes |-> decodeCount, reports |-> hwReports,
     reportAt |-> hwReportAt, reportLog |-> hwReportLog, decodeAt |-> hwDecodeAtUs,
     frame |-> hwFrame]
LastBytes == {0, LowByte, 255}

\* C17: a complete 19-byte frame in which byte4, byte6 or byte8 is >= 4 or
\* byte11, byte13, byte15 or byte17 is >= 0x0F is counted as a CRC error and
\* leaves temperature, voltage, current, rpm and data age of record 0 and the
\* time of the last update as they were before the frame, that is, as the age
\* test at the start of the tick left them
C17_InsaneFrameDiscarded ==
    [][/\ Hw4Rejected =>
            /\ CrcErrorCounted
            /\ ReadingsKept
            /\ decodeCount' = decodeCount
            /\ IF Hw4AgeDue(currentTimeUs', dataUpdateUs)
               THEN /\ escSensorData'[0].dataAge =
                         SaturatedNext(escSensorData[0].dataAge)
                    /\ dataUpdateUs' = currentTimeUs'
               ELSE /\ escSensorData'[0].dataAge = escSensorData[0].dataAge
                    /\ dataUpdateUs' = dataUpdateUs
       /\ (protocol = "HW4" /\ initDone /\ skipBytes = 0
              /\ bytesRead = HW4_FRAME_SIZE - 1) =>
            \A b \in LastBytes :
               LET before == HwLoopState
                   after == Hw4Byte(before, b, currentTimeUs)
               IN /\ after.reports = before.reports + 1
                  /\ SanityViolated(after.frame) =>
                        /\ after.crcErrors = before.crcErrors + 1
                        /\ after.rec = before.rec
                        /\ after.dataUpdateUs = before.dataUpdateUs
                        /\ after.decodes = before.decodes
                  /\ ~SanityViolated(after.frame) =>
                        /\ after.crcErrors = before.crcErrors
                        /\ after.decodes = before.decodes + 1]_vars

\* a frame whose byte17 is 0x0F followed a valid frame: it was counted, and
\* the record holds the readings of the valid frame
C17_Witness ==
    /\ protocol = "HW4"
    /\ hwReports = 2
    /\ hwFrame[18] = 15
    /\ totalCrcErrorCount = 1
    /\ decodeCount = 1
    /\ escSensorData[0].rpm = Hw4Rpm(HwGoodFrame) \div 100
    /\ escSensorData[0].voltage > 0

(* ------------------------------------------------------------------ *)
(* The Hobbywing data age                                              *)
(* ------------------------------------------------------------------ *)
\* the later of the last successful decode and the last strike of the age
\* test; the clock starts at 0
AgeReferenceUs == Max(Max(hwDecodeAtUs, hwAgedAtUs), 0)
\* the tick of this step observes more than 250 ms since the reference
AgeObservedDue == currentTimeUs' - AgeReferenceUs > 250 * 1000
Hw4Decoded == decodeCount' > decodeCount
Hw4Running == initDone /\ SensorActive /\ protocol = "HW4"

\* C18: the age of record 0 goes up by one (saturating) exactly in a tick that
\* observes more than 250 ms since the later of the last successful decode and
\* the last age increment, whatever bytes and rejected frames the tick parses;
\* after a tick in which a frame passes the sanity test the age is 0
C18_AgeEvery250ms ==
    [][Hw4Running =>
          /\ escSensorData'[0].dataAge =
                IF Hw4Decoded THEN 0
                ELSE IF AgeObservedDue THEN SaturatedNext(escSensorData[0].dataAge)
                ELSE escSensorData[0].dataAge
          /\ hwAgedAtUs' # hwAgedAtUs <=> AgeObservedDue
          /\ dataUpdateUs' = Max(Max(hwDecodeAtUs', hwAgedAtUs'), 0)]_vars

\* after a valid frame the age test has struck twice, a rejected frame has
\* been counted, and the age is 2
C18_Witness ==
    /\ Hw4Running
    /\ decodeCount = 1
    /\ totalCrcErrorCount = 1
    /\ escSensorData[0].dataAge = 2
    /\ hwAgedAtUs > hwDecodeAtUs + 2 * 250 * 1000

(* ------------------------------------------------------------------ *)
(* A tick that finds the reply incomplete                              *)
(* ------------------------------------------------------------------ *)
\* a run of the task: the wire is left alone
TaskRan == escTx' = escTx /\ replies' = replies /\ requestTelemetry' = requestTelemetry
FramePending ==
    /\ KissRunning
    /\ escSensorTriggerState = "PENDING"
    /\ bufferPosition < TELEMETRY_FRAME_SIZE

\* C19: a tick less than 100 ms after the request that finds fewer than 10
\* bytes in the buffer changes nothing: selected motor, trigger state, request
\* timestamp, buffer, position and size, every record, the aggregate and its
\* dirty flag and both error counters stay, and no request is issued
C19_PendingTickIdle ==
    [][(FramePending /\ TaskRan
          /\ NowMs' < escTriggerTimestamp + ESC_REQUEST_TIMEOUT) =>
          UNCHANGED <<escSensorMotor, escSensorTriggerState, escTriggerTimestamp,
                      telemetryBuffer, bufferPosition, bufferSize, escSensorData,
                      combinedEscSensorData, combinedDataNeedsUpdate,
                      totalCrcErrorCount, totalTimeoutCount, decodeCount,
                      requestCount, lastRequestMs>>]_vars

\* four bytes of a reply arrived with the request; the task has run in every
\* millisecond since, 99 times, and the first request is still the only one
C19_Witness ==
    /\ FramePending
    /\ bufferPosition = PartialLen
    /\ storeLog[PartialLen].atMs = escTriggerTimestamp
    /\ NowMs = escTriggerTimestamp + ESC_REQUEST_TIMEOUT - 1
    /\ requestCount = 1
    /\ totalTimeoutCount = 0
    /\ totalCrcErrorCount = 0

(* ------------------------------------------------------------------ *)
(* The selected motor                                                  *)
(* ------------------------------------------------------------------ *)
MotorInRange == escSensorMotor \in 0..(motorCount - 1)
\* the task leaves the Startup state or consumes a reply or a timeout
Advanced == escSensorTriggerState = "PENDING" /\ RequestIssued

\* C20: in KISS mode the selected motor is always below the motor count,
\* every advance moves it from m to (m + 1) mod N, it changes only in a step
\* that issues a request, the request goes to the motor selected, and no
\* record at or above the motor count is ever written
C20_MotorIndexInRange ==
    [][KissRunning =>
          /\ MotorInRange
          /\ escSensorMotor' \in 0..(motorCount - 1)
          /\ Advanced => escSensorMotor' = (escSensorMotor + 1) % motorCount
          /\ escSensorMotor' # escSensorMotor => Advanced
          /\ RequestIssued => requestTelemetry'[escSensorMotor']
          /\ \A m \in Motors :
                escSensorData'[m] # escSensorData[m] => m = escSensorMotor]_vars

\* with two motors the index went from 0 to 1 and back to 0, and both
\* records were written: one by a decode, one by a timeout or a CRC error
C20_Witness ==
    /\ KissRunning
    /\ motorCount = 2
    /\ requestCount = 3
    /\ escSensorMotor = 0
    /\ lastRequestMs[1] > 0
    /\ decodeCount = 1
    /\ escSensorData[0].dataAge = 0
    /\ escSensorData[0].rpm > 0

(* ------------------------------------------------------------------ *)
(* Request accounting                                                  *)
(* ------------------------------------------------------------------ *)
Concluded == decodeCount + totalCrcErrorCount + totalTimeoutCount
\* no request before the first one; afterwards one request is awaited
AccountOf(state, issued, concluded) ==
    IF state = "STARTUP" THEN issued = 0 /\ concluded = 0
    ELSE state = "PENDING" /\ issued = concluded + 1
\* the bytes in the buffer arrived during the request that is awaited
BufferFresh ==
    \A i \in FrameBytes :
        IF i <= bufferPosition THEN storeLog[i].request = requestCount
        ELSE storeLog[i].request < requestCount \/ storeLog[i] = NoStore

\* C21: in KISS mode no request is issued before the first one and, while a
\* response is awaited, requests issued = decodes + CRC errors + timeouts + 1;
\* a step that issues a request while one is awaited concludes that one by
\* exactly one of decode, CRC error and timeout, and the counters move in no
\* other step; the tick that decodes a frame re-arms the buffer, and the bytes
\* in the buffer were all received during the request that is awaited, so no
\* frame is decoded twice
C21_RequestAccounting ==
    [][KissRunning =>
          /\ AccountOf(escSensorTriggerState, requestCount, Concluded)
          /\ AccountOf(escSensorTriggerState', requestCount', Concluded')
          /\ decodeCount' \in {decodeCount, decodeCount + 1}
          /\ totalCrcErrorCount' \in {totalCrcErrorCount, totalCrcErrorCount + 1}
          /\ totalTimeoutCount' \in {totalTimeoutCount, totalTimeoutCount + 1}
          /\ Advanced <=> Concluded' = Concluded + 1
          /\ Concluded' # Concluded => Concluded' = Concluded + 1
          /\ FrameDecoded => (bufferPosition' = 0 /\ RequestIssued)
          /\ BufferFresh]_vars

\* four requests were issued: one was answered by a valid frame, one by a
\* corrupt frame, one ran into the timeout, and the fourth is awaited
C21_Witness ==
    /\ KissRunning
    /\ escSensorTriggerState = "PENDING"
    /\ requestCount = 4
    /\ decodeCount = 1
    /\ totalCrcErrorCount = 1
    /\ totalTimeoutCount = 1

(* ------------------------------------------------------------------ *)
(* The state of the Hobbywing synchronizer                             *)
(* ------------------------------------------------------------------ *)
ParserState ==
    [hwData |-> hwData, skipBytes |-> skipBytes, bytesRead |-> bytesRead,
     complete |-> FALSE]
AnyBytes == {0, 3, HW4_SYNC, 255}
\* the places of hwData (from 1) where q differs from p
StoredAt(p, q) == {i \in DOMAIN p.hwData : q.hwData[i] # p.hwData[i]}

\* C22: whatever bytes were parsed, bytesRead is in 0..18 and skipBytes in
\* 0..11 and one of them is 0; the next byte, whatever it is, is stored at
\* hwData[bytesRead] with an index of at most 18 or not at all, and is
\* dropped when skipBytes > 0, with nothing but skipBytes changed; a frame is
\* reported only for the 19th byte of a frame whose byte 0 is 0x9B, and the
\* frame reported is the last 19 bytes parsed
C22_ParserBounds ==
    [][Hw4Running =>
          /\ bytesRead \in 0..(HW4_FRAME_SIZE - 1)
          /\ skipBytes \in 0..HW4_SKIP
          /\ bytesRead = 0 \/ skipBytes = 0
          /\ bytesRead' \in 0..(HW4_FRAME_SIZE - 1)
          /\ skipBytes' \in 0..HW4_SKIP
          /\ bytesRead' = 0 \/ skipBytes' = 0
          /\ \A b \in AnyBytes :
                LET p == ParserState
                    q == processHW4TelemetryStream(p, b)
                IN /\ StoredAt(p, q) \subseteq {bytesRead + 1}
                   /\ bytesRead + 1 <= HW4_FRAME_SIZE
                   /\ skipBytes > 0 =>
                         q = [p EXCEPT !.skipBytes = skipBytes - 1]
                   /\ q.complete =>
                         /\ bytesRead = HW4_FRAME_SIZE - 1
                         /\ q.hwData[1] = HW4_SYNC
                         /\ q.hwData[HW4_FRAME_SIZE] = b
                         /\ q.bytesRead = 0
          /\ hwReports' > hwReports =>
                /\ hwFrame'[1] = HW4_SYNC
                /\ Len(hwFrame') = HW4_FRAME_SIZE
                /\ hwFrame' = SubSeq(hwTape, hwReportAt' - HW4_FRAME_SIZE + 1, hwReportAt')
                /\ hwReports' = 1 \/ hwReportAt' - hwReportAt >= HW4_FRAME_SIZE]_vars

\* two sync bytes were followed by 11 bytes that were skipped, and the 19
\* bytes after them, the first a sync byte, were reported as a frame
C22_Witness ==
    /\ Hw4Running
    /\ Len(hwTape) = 2 + HW4_SKIP + HW4_FRAME_SIZE
    /\ hwTape[1] = HW4_SYNC
    /\ hwTape[2] = HW4_SYNC
    /\ hwReports = 1
    /\ hwReportAt = Len(hwTape)
    /\ bytesRead = 0
    /\ skipBytes = 0

====
